---- MODULE Spec2Model ----
(***************************************************************************)
(* go-bashly: settings resolution (internal/settings), command tree        *)
(* construction and listing (internal/commandmodel/tree.go), the inspect    *)
(* and generate commands (main.go, package generate), argument resolution  *)
(* and validation (package runtime).                                       *)
(*                                                                         *)
(* Go strings are TLA+ strings; a Go slice is a sequence; a Go map is a    *)
(* function whose DOMAIN is the key set; the untyped configuration value   *)
(* (any) is a tagged record.  A *Command inside a tree is designated by    *)
(* the path of child indexes that leads to it from the root.               *)
(***************************************************************************)
EXTENDS Integers, Sequences, FiniteSets, TLC

VARIABLES pc, cfg, st, argv, root, buildErr, parsed, parseErr, result,
          osEnv, userFile, loadErr, options, fs0, fs, script, output

vars == <<pc, cfg, st, argv, root, buildErr, parsed, parseErr, result,
          osEnv, userFile, loadErr, options, fs0, fs, script, output>>

(***************************************************************************)
(* Bounds of the explored inputs.                                          *)
(***************************************************************************)
MaxArgv == 3
MaxNodes == 3
MaxDecl == 2
MaxScript == 4

(***************************************************************************)
(* Package strings / path/filepath, as used by the sources.                *)
(***************************************************************************)
CharAt(s, i) == SubSeq(s, i, i)

HasPrefix(s, prefix) ==
    /\ Len(prefix) <= Len(s)
    /\ SubSeq(s, 1, Len(prefix)) = prefix

HasSuffix(s, suffix) ==
    /\ Len(suffix) <= Len(s)
    /\ SubSeq(s, Len(s) - Len(suffix) + 1, Len(s)) = suffix

TrimSuffix(s, suffix) ==
    IF HasSuffix(s, suffix) THEN SubSeq(s, 1, Len(s) - Len(suffix)) ELSE s

\* strings.Index for a one-character separator; 0 when absent.
IndexOf(s, c) ==
    LET hits == {i \in 1..Len(s) : CharAt(s, i) = c}
    IN  IF hits = {} THEN 0 ELSE CHOOSE i \in hits : \A j \in hits : i <= j

StringsContains(s, c) == IndexOf(s, c) # 0

\* strings.SplitN(s, sep, 2)
SplitN2(s, sep) ==
    LET k == IndexOf(s, sep)
    IN  IF k = 0 THEN <<s>>
        ELSE <<SubSeq(s, 1, k - 1), SubSeq(s, k + 1, Len(s))>>

\* strings.ReplaceAll for a non-empty old: the non-overlapping occurrences
\* of old, found from left to right, are replaced by new.
RECURSIVE ReplaceAll(_, _, _)
ReplaceAll(s, old, new) ==
    IF Len(s) = 0 THEN ""
    ELSE IF HasPrefix(s, old)
    THEN new \o ReplaceAll(SubSeq(s, Len(old) + 1, Len(s)), old, new)
    ELSE CharAt(s, 1) \o ReplaceAll(Tail(s), old, new)

RECURSIVE StringsJoin(_, _)
StringsJoin(elems, sep) ==
    IF Len(elems) = 0 THEN ""
    ELSE IF Len(elems) = 1 THEN elems[1]
    ELSE elems[1] \o sep \o StringsJoin(Tail(elems), sep)

UpperLetters == "ABCDEFGHIJKLMNOPQRSTUVWXYZ"
LowerLetters == "abcdefghijklmnopqrstuvwxyz"

RECURSIVE ToLower(_)
ToLower(s) ==
    IF Len(s) = 0 THEN ""
    ELSE LET k == IndexOf(UpperLetters, CharAt(s, 1))
         IN  (IF k = 0 THEN CharAt(s, 1) ELSE CharAt(LowerLetters, k))
                \o ToLower(Tail(s))

IsSpace(c) == c \in {" ", "\t", "\n", "\r"}

RECURSIVE TrimLeft(_)
TrimLeft(s) ==
    IF Len(s) > 0 /\ IsSpace(CharAt(s, 1)) THEN TrimLeft(Tail(s)) ELSE s

RECURSIVE TrimRight(_)
TrimRight(s) ==
    IF Len(s) > 0 /\ IsSpace(CharAt(s, Len(s)))
    THEN TrimRight(SubSeq(s, 1, Len(s) - 1)) ELSE s

TrimSpace(s) == TrimRight(TrimLeft(s))

\* Path elements between separators, empty ones included.
RECURSIVE SplitPath(_)
SplitPath(p) ==
    LET k == IndexOf(p, "/")
    IN  IF k = 0 THEN <<p>>
        ELSE <<SubSeq(p, 1, k - 1)>> \o SplitPath(SubSeq(p, k + 1, Len(p)))

\* filepath.Clean on a Unix path: drops empty and "." elements, resolves "..".
RECURSIVE CleanElems(_, _, _)
CleanElems(elems, out, rooted) ==
    IF Len(elems) = 0 THEN out
    ELSE LET e == elems[1]
             rest == Tail(elems)
         IN  IF e = "" \/ e = "." THEN CleanElems(rest, out, rooted)
             ELSE IF e = ".." THEN
                    IF Len(out) > 0 /\ out[Len(out)] # ".."
                    THEN CleanElems(rest, SubSeq(out, 1, Len(out) - 1), rooted)
                    ELSE IF rooted THEN CleanElems(rest, out, rooted)
                    ELSE CleanElems(rest, Append(out, e), rooted)
             ELSE CleanElems(rest, Append(out, e), rooted)

FilepathClean(p) ==
    IF p = "" THEN "."
    ELSE LET rooted == HasPrefix(p, "/")
             body == StringsJoin(CleanElems(SplitPath(p), <<>>, rooted), "/")
         IN  IF rooted THEN "/" \o body
             ELSE IF body = "" THEN "." ELSE body

\* filepath.Join of two elements: empty elements are ignored, the rest is cleaned.
FilepathJoin(a, b) ==
    IF a = "" /\ b = "" THEN ""
    ELSE IF a = "" THEN FilepathClean(b)
    ELSE IF b = "" THEN FilepathClean(a)
    ELSE FilepathClean(a \o "/" \o b)

\* filepath.FromSlash: the separator is '/' on the modelled platform.
FromSlash(p) == ReplaceAll(p, "/", "/")

(***************************************************************************)
(* Untyped configuration values (Go: any).                                 *)
(***************************************************************************)
Nil == [t |-> "nil"]
Str(s) == [t |-> "string", s |-> s]
Bool(b) == [t |-> "bool", b |-> b]
List(l) == [t |-> "list", l |-> l]
Map(m) == [t |-> "map", m |-> m]

EmptyMap == [k \in {} |-> Nil]

\* m[key] on a map[string]any: nil for an absent key.
Get(m, key) == IF key \in DOMAIN m THEN m[key] ELSE Nil

asString(v) == IF v.t = "string" THEN v.s ELSE ""

asBool(v) == IF v.t = "bool" THEN v.b ELSE FALSE

(***************************************************************************)
(* internal/commandmodel/tree.go: declarations.                            *)
(***************************************************************************)
\* The strings of rawAllowed, non-strings dropped.
RECURSIVE allowedStrings(_)
allowedStrings(arr) ==
    IF Len(arr) = 0 THEN <<>>
    ELSE (IF arr[1].t = "string" THEN <<arr[1].s>> ELSE <<>>)
            \o allowedStrings(Tail(arr))

flagOf(m) ==
    [Long     |-> asString(Get(m, "long")),
     Short    |-> asString(Get(m, "short")),
     Required |-> asBool(Get(m, "required")),
     Allowed  |-> IF "allowed" \in DOMAIN m /\ m["allowed"].t = "list"
                  THEN allowedStrings(m["allowed"].l) ELSE <<>>,
     Private  |-> asBool(Get(m, "private"))]

RECURSIVE parseFlagsFrom(_)
parseFlagsFrom(list) ==
    IF Len(list) = 0 THEN <<>>
    ELSE (IF list[1].t # "map" THEN <<>> ELSE <<flagOf(list[1].m)>>)
            \o parseFlagsFrom(Tail(list))

parseFlags(v) == IF v.t # "list" THEN <<>> ELSE parseFlagsFrom(v.l)

RECURSIVE parseArgsFrom(_)
parseArgsFrom(list) ==
    IF Len(list) = 0 THEN <<>>
    ELSE (IF list[1].t # "map" THEN <<>>
          ELSE IF asString(Get(list[1].m, "name")) = "" THEN <<>>
          ELSE <<[Name     |-> asString(Get(list[1].m, "name")),
                  Required |-> asBool(Get(list[1].m, "required"))]>>)
            \o parseArgsFrom(Tail(list))

\* An args parser that keeps the mappings without a name.
RECURSIVE parseArgsFromKeepUnnamed(_)
parseArgsFromKeepUnnamed(list) ==
    IF Len(list) = 0 THEN <<>>
    ELSE (IF list[1].t # "map" THEN <<>>
          ELSE <<[Name     |-> asString(Get(list[1].m, "name")),
                  Required |-> asBool(Get(list[1].m, "required"))]>>)
            \o parseArgsFromKeepUnnamed(Tail(list))

parseArgsKeepUnnamed(v) ==
    IF v.t # "list" THEN <<>> ELSE parseArgsFromKeepUnnamed(v.l)

parseArgs(v) == IF v.t # "list" THEN <<>> ELSE parseArgsFrom(v.l)

RECURSIVE parseEnvVarsFrom(_)
parseEnvVarsFrom(list) ==
    IF Len(list) = 0 THEN <<>>
    ELSE (IF list[1].t # "map" THEN <<>>
          ELSE IF asString(Get(list[1].m, "name")) = "" THEN <<>>
          ELSE <<[Name    |-> asString(Get(list[1].m, "name")),
                  Private |-> asBool(Get(list[1].m, "private"))]>>)
            \o parseEnvVarsFrom(Tail(list))

parseEnvVars(v) == IF v.t # "list" THEN <<>> ELSE parseEnvVarsFrom(v.l)

(***************************************************************************)
(* internal/commandmodel/tree.go: identity of a node.                      *)
(***************************************************************************)
\* An action name that keeps the root's name in front.
computeActionNameKeepRoot(parents, name) ==
    IF Len(parents) = 0 THEN "root"
    ELSE StringsJoin(Append(parents, name), " ")

computeActionName(parents, name) ==
    IF Len(parents) = 0 THEN "root"
    ELSE IF Len(parents) = 1 THEN name
    ELSE StringsJoin(Append(Tail(parents), name), " ")

RECURSIVE nonEmptyStrings(_)
nonEmptyStrings(l) ==
    IF Len(l) = 0 THEN <<>>
    ELSE (IF l[1].t = "string" /\ l[1].s # "" THEN <<l[1].s>> ELSE <<>>)
            \o nonEmptyStrings(Tail(l))

normalizeAlias(v, name) ==
    LET alts == CASE v.t = "nil" -> <<>>
                  [] v.t = "string" -> IF v.s # "" THEN <<v.s>> ELSE <<>>
                  [] v.t = "list" -> nonEmptyStrings(v.l)
                  [] OTHER -> <<>>
    IN  <<name>> \o alts

underscore(s) ==
    ToLower(ReplaceAll(ReplaceAll(TrimSpace(s), "-", "_"), "/", "_"))

\* An extension that is not defaulted.
partialsExtAsSet(settings) == settings.PartialsExtension

partialsExt(settings) ==
    IF settings.PartialsExtension = "" THEN "sh" ELSE settings.PartialsExtension

resolveFilename(opts, parents, name, settings) ==
    IF asString(Get(opts, "filename")) # "" THEN asString(Get(opts, "filename"))
    ELSE LET action == computeActionName(parents, name)
             ext == partialsExt(settings)
         IN  IF settings.CommandsDir # ""
             THEN FilepathJoin(settings.CommandsDir,
                               FromSlash(ReplaceAll(action, " ", "/")) \o "." \o ext)
             ELSE underscore(ReplaceAll(action, " ", "_")) \o "_command." \o ext

(***************************************************************************)
(* internal/commandmodel/tree.go: BuildFromConfigMap / buildChildren.      *)
(* A build result is [cmds, err]; err = "" is Go's nil error, and on an    *)
(* error the returned slice is nil.                                        *)
(***************************************************************************)
NilCommand == [nil |-> TRUE]

\* An entry check that accepts a mapping without a name.
entryErrMappingOnly(list, i) ==
    IF list[i].t # "map"
    THEN "commands[" \o ToString(i - 1) \o "] must be a mapping"
    ELSE ""

\* The error buildChildren raises on entry i (1-based) itself, "" for none.
entryErr(list, i) ==
    IF list[i].t # "map"
    THEN "commands[" \o ToString(i - 1) \o "] must be a mapping"
    ELSE IF asString(Get(list[i].m, "name")) = ""
    THEN "commands[" \o ToString(i - 1) \o "].name is required"
    ELSE ""

RECURSIVE buildChildrenFrom(_, _, _, _, _)
buildChildrenFrom(list, i, out, parent, settings) ==
    IF i > Len(list) THEN [cmds |-> out, err |-> ""]
    ELSE IF entryErr(list, i) # ""
    THEN [cmds |-> <<>>, err |-> entryErr(list, i)]
    ELSE LET opts == list[i].m
             name == asString(Get(opts, "name"))
         IN
         LET parents == Append(parent.Parents, parent.Name)
             cmd == [Name        |-> name,
                     Parents     |-> parents,
                     FullName    |-> StringsJoin(Append(parents, name), " "),
                     ActionName  |-> computeActionName(parents, name),
                     Private     |-> asBool(Get(opts, "private")),
                     Expose      |-> asString(Get(opts, "expose")),
                     Alias       |-> normalizeAlias(Get(opts, "alias"), name),
                     Filename    |-> resolveFilename(opts, parents, name, settings),
                     Description |-> asString(Get(opts, "description")),
                     Args        |-> parseArgs(Get(opts, "args")),
                     Flags       |-> parseFlags(Get(opts, "flags")),
                     EnvVars     |-> parseEnvVars(Get(opts, "environment_variables")),
                     Commands    |-> <<>>]
         IN
         IF "commands" \in DOMAIN opts
         THEN IF opts["commands"].t # "list"
              THEN [cmds |-> <<>>,
                    err |-> cmd.FullName \o ".commands must be a list"]
              ELSE LET sub == buildChildrenFrom(opts["commands"].l, 1, <<>>, cmd, settings)
                   IN  IF sub.err # ""
                       THEN [cmds |-> <<>>, err |-> sub.err]
                       ELSE buildChildrenFrom(list, i + 1,
                                Append(out, [cmd EXCEPT !.Commands = sub.cmds]),
                                parent, settings)
         ELSE buildChildrenFrom(list, i + 1, Append(out, cmd), parent, settings)

buildChildren(list, parent, settings) ==
    buildChildrenFrom(list, 1, <<>>, parent, settings)

\* Result [root, err]: root = NilCommand when err # "".
BuildFromConfigMap(config, settings) ==
    LET name == IF asString(Get(config, "name")) = "" THEN "root"
                ELSE asString(Get(config, "name"))
        rootCmd == [Name        |-> name,
                    Parents     |-> <<>>,
                    FullName    |-> name,
                    ActionName  |-> "root",
                    Private     |-> FALSE,
                    Expose      |-> "",
                    Alias       |-> <<>>,
                    Filename    |-> IF settings.CommandsDir # ""
                                    THEN FilepathJoin(settings.CommandsDir,
                                                      "root." \o partialsExt(settings))
                                    ELSE "root_command." \o partialsExt(settings),
                    Description |-> asString(Get(config, "description")),
                    Args        |-> parseArgs(Get(config, "args")),
                    Flags       |-> parseFlags(Get(config, "flags")),
                    EnvVars     |-> parseEnvVars(Get(config, "environment_variables")),
                    Commands    |-> <<>>]
    IN  IF "commands" \in DOMAIN config
        THEN IF config["commands"].t # "list"
             THEN [root |-> NilCommand, err |-> "config.commands must be a list"]
             ELSE LET sub == buildChildren(config["commands"].l, rootCmd, settings)
                  IN  IF sub.err # ""
                      THEN [root |-> NilCommand, err |-> sub.err]
                      ELSE [root |-> [rootCmd EXCEPT !.Commands = sub.cmds],
                            err |-> ""]
        ELSE [root |-> rootCmd, err |-> ""]

\* The node designated by a path of child indexes.
RECURSIVE NodeAt(_, _)
NodeAt(c, path) ==
    IF Len(path) = 0 THEN c ELSE NodeAt(c.Commands[path[1]], Tail(path))

\* Paths of all nodes of the tree rooted at c, the root's own path first.
RECURSIVE PathsOf(_)
PathsOf(c) ==
    {<<>>} \cup UNION {{<<i>> \o p : p \in PathsOf(c.Commands[i])}
                          : i \in 1..Len(c.Commands)}

(***************************************************************************)
(* Package runtime: ParseArgs and its helpers.                             *)
(***************************************************************************)
\* A *Command: the path of the node below the root, or the nil pointer.
Ptr(path) == [nil |-> FALSE, path |-> path]
NilPtr == [nil |-> TRUE, path |-> <<>>]

Min(S) == CHOOSE i \in S : \A j \in S : i <= j

\* contains(slice, item)
contains(slice, item) == \E i \in 1..Len(slice) : slice[i] = item

\* The test findChild applies to one alias of a child.
aliasMatches(alias, name) ==
    IF HasPrefix(alias, "*")
    THEN HasPrefix(name, TrimSuffix(alias, "*"))
    ELSE alias = name

\* The body of findChild's loop for one child: it returns this child or goes on.
childMatches(child, name) ==
    \/ child.Name = name
    \/ \E k \in 1..Len(child.Alias) : aliasMatches(child.Alias[k], name)

\* A loop without the early return: the last child that matches.
findChildLastMatch(parent, name) ==
    LET hits == {i \in 1..Len(parent.Commands) : childMatches(parent.Commands[i], name)}
    IN  IF hits = {} THEN 0 ELSE CHOOSE i \in hits : \A j \in hits : j <= i

\* findChild: index of the first child that matches, 0 for nil.
findChild(parent, name) ==
    LET hits == {i \in 1..Len(parent.Commands) : childMatches(parent.Commands[i], name)}
    IN  IF hits = {} THEN 0 ELSE Min(hits)

\* resolveCommandPath from the node at path, with the tokens still unconsumed.
RECURSIVE resolveFrom(_, _, _)
resolveFrom(tree, path, remaining) ==
    IF Len(remaining) = 0 THEN [cmd |-> Ptr(path), remaining |-> remaining]
    ELSE LET next == findChild(NodeAt(tree, path), remaining[1])
         IN  IF next = 0 THEN [cmd |-> Ptr(path), remaining |-> remaining]
             ELSE resolveFrom(tree, Append(path, next), Tail(remaining))

\* A resolver that descends one level at most.
resolveCommandPathOneLevel(tree, args) ==
    IF tree = NilCommand THEN [cmd |-> NilPtr, remaining |-> args]
    ELSE IF Len(args) = 0 \/ findChild(tree, args[1]) = 0
    THEN [cmd |-> Ptr(<<>>), remaining |-> args]
    ELSE [cmd |-> Ptr(<<findChild(tree, args[1])>>), remaining |-> Tail(args)]

resolveCommandPath(tree, args) ==
    IF tree = NilCommand THEN [cmd |-> NilPtr, remaining |-> args]
    ELSE resolveFrom(tree, <<>>, args)

\* p.Flags[key] = value
Put(flags, key, value) == (key :> value) @@ flags

\* A cluster kept as one flag named by the whole token.
putClusterWhole(flags, arg, k) == Put(flags, arg, "true")

\* Compact cluster: one flag per character of arg from position k on.
RECURSIVE putCluster(_, _, _)
putCluster(flags, arg, k) ==
    IF k > Len(arg) THEN flags
    ELSE putCluster(Put(flags, "-" \o CharAt(arg, k), "true"), arg, k + 1)

\* A value test that takes any following token, flag-like or not.
nextIsValueAnyToken(args, i) == i + 1 <= Len(args)

\* i+1 < len(args) && !strings.HasPrefix(args[i+1], "-"), i being 1-based.
nextIsValue(args, i) == i + 1 <= Len(args) /\ ~HasPrefix(args[i + 1], "-")

\* The loop of parseFlagsAndArgs, i being the 1-based position in args.
RECURSIVE parseFlagsAndArgsFrom(_, _, _)
parseFlagsAndArgsFrom(p, args, i) ==
    IF i > Len(args) THEN p
    ELSE
    LET arg == args[i]
        valueFollows == nextIsValue(args, i)
    IN
    IF HasPrefix(arg, "--")
    THEN IF StringsContains(arg, "=")
         THEN parseFlagsAndArgsFrom(
                  [p EXCEPT !.Flags = Put(@, SplitN2(arg, "=")[1], SplitN2(arg, "=")[2])],
                  args, i + 1)
         ELSE IF valueFollows
         THEN parseFlagsAndArgsFrom([p EXCEPT !.Flags = Put(@, arg, args[i + 1])],
                                    args, i + 2)
         ELSE parseFlagsAndArgsFrom([p EXCEPT !.Flags = Put(@, arg, "true")],
                                    args, i + 1)
    ELSE IF HasPrefix(arg, "-") /\ Len(arg) > 1
    THEN IF Len(arg) = 2
         THEN IF valueFollows
              THEN parseFlagsAndArgsFrom([p EXCEPT !.Flags = Put(@, arg, args[i + 1])],
                                         args, i + 2)
              ELSE parseFlagsAndArgsFrom([p EXCEPT !.Flags = Put(@, arg, "true")],
                                         args, i + 1)
         ELSE parseFlagsAndArgsFrom([p EXCEPT !.Flags = putCluster(@, arg, 2)],
                                    args, i + 1)
    ELSE parseFlagsAndArgsFrom([p EXCEPT !.Positional = Append(@, arg)], args, i + 1)

\* A loop that starts one token too late.
parseFlagsAndArgsSkipFirst(p, args) == parseFlagsAndArgsFrom(p, args, 2)

parseFlagsAndArgs(p, args) == parseFlagsAndArgsFrom(p, args, 1)

EmptyFlags == [k \in {} |-> ""]

NilParsed == [nil |-> TRUE]

\* A help test that only looks at the first token.
helpRequestedFirstOnly(args) ==
    Len(args) > 0 /\ (args[1] = "--help" \/ args[1] = "-h")

\* Global --help detection.
helpRequested(args) == contains(args, "--help") \/ contains(args, "-h")

\* Result [p, err]: p = NilParsed when err # "".
ParseArgs(args, tree) ==
    LET p0 == [Command    |-> NilPtr,
               Flags      |-> EmptyFlags,
               Positional |-> <<>>,
               Remaining  |-> <<>>,
               HelpAsked  |-> FALSE]
    IN
    IF helpRequested(args)
    THEN [p |-> [p0 EXCEPT !.HelpAsked = TRUE,
                            !.Command = IF tree = NilCommand THEN NilPtr ELSE Ptr(<<>>)],
          err |-> ""]
    ELSE LET r == resolveCommandPath(tree, args)
         IN  IF r.cmd.nil
             THEN [p |-> NilParsed, err |-> "unknown command"]
             ELSE [p |-> parseFlagsAndArgs(
                            [p0 EXCEPT !.Command = r.cmd, !.Remaining = r.remaining],
                            r.remaining),
                   err |-> ""]

(***************************************************************************)
(* Package runtime: ValidateParsed.                                        *)
(***************************************************************************)
\* parsed.Flags[key] on a map[string]string: "" for an absent key.
FlagValue(flags, key) == IF key \in DOMAIN flags THEN flags[key] ELSE ""

\* A lookup without the fallback to the short key.
flagLookupLongOnly(flags, flag) == FlagValue(flags, flag.Long)

\* value := Flags[flag.Long]; if value == "" { value = Flags[flag.Short] }
flagLookup(flags, flag) ==
    IF FlagValue(flags, flag.Long) = "" THEN FlagValue(flags, flag.Short)
    ELSE FlagValue(flags, flag.Long)

\* name := flag.Long; if name == "" { name = flag.Short }
flagDisplayName(flag) == IF flag.Long = "" THEN flag.Short ELSE flag.Long

missingArgs(cmd, p) ==
    {i \in 1..Len(cmd.Args) :
        cmd.Args[i].Required /\ ~contains(p.Positional, cmd.Args[i].Name)}

missingFlags(cmd, p) ==
    {i \in 1..Len(cmd.Flags) :
        cmd.Flags[i].Required /\ flagLookup(p.Flags, cmd.Flags[i]) = ""}

badValues(cmd, p) ==
    {i \in 1..Len(cmd.Flags) :
        /\ flagLookup(p.Flags, cmd.Flags[i]) # ""
        /\ Len(cmd.Flags[i].Allowed) > 0
        /\ ~contains(cmd.Flags[i].Allowed, flagLookup(p.Flags, cmd.Flags[i]))}

\* The three checks with the allowed values checked first.
ValidateParsedValuesFirst(cmd, p) ==
    IF badValues(cmd, p) # {}
    THEN [Valid    |-> FALSE,
          ErrorMsg |-> "invalid value for "
                          \o flagDisplayName(cmd.Flags[Min(badValues(cmd, p))])
                          \o ": "
                          \o flagLookup(p.Flags, cmd.Flags[Min(badValues(cmd, p))]),
          ExitCode |-> 2]
    ELSE IF missingArgs(cmd, p) # {}
    THEN [Valid    |-> FALSE,
          ErrorMsg |-> "missing required argument: "
                          \o cmd.Args[Min(missingArgs(cmd, p))].Name,
          ExitCode |-> 2]
    ELSE IF missingFlags(cmd, p) # {}
    THEN [Valid    |-> FALSE,
          ErrorMsg |-> "missing required flag: "
                          \o flagDisplayName(cmd.Flags[Min(missingFlags(cmd, p))]),
          ExitCode |-> 2]
    ELSE [Valid |-> TRUE, ErrorMsg |-> "", ExitCode |-> 0]

ValidateParsed(cmd, p) ==
    IF missingArgs(cmd, p) # {}
    THEN [Valid    |-> FALSE,
          ErrorMsg |-> "missing required argument: "
                          \o cmd.Args[Min(missingArgs(cmd, p))].Name,
          ExitCode |-> 2]
    ELSE IF missingFlags(cmd, p) # {}
    THEN [Valid    |-> FALSE,
          ErrorMsg |-> "missing required flag: "
                          \o flagDisplayName(cmd.Flags[Min(missingFlags(cmd, p))]),
          ExitCode |-> 2]
    ELSE IF badValues(cmd, p) # {}
    THEN [Valid    |-> FALSE,
          ErrorMsg |-> "invalid value for "
                          \o flagDisplayName(cmd.Flags[Min(badValues(cmd, p))])
                          \o ": "
                          \o flagLookup(p.Flags, cmd.Flags[Min(badValues(cmd, p))]),
          ExitCode |-> 2]
    ELSE [Valid |-> TRUE, ErrorMsg |-> "", ExitCode |-> 0]

(***************************************************************************)
(* internal/commandmodel/tree.go: DeepCommands.  The returned []*Command   *)
(* is the sequence of the pointers, each the path of its node.             *)
(***************************************************************************)
RECURSIVE deepCommandsFrom(_, _)
RECURSIVE deepCommandsOfChildren(_, _, _)

\* The loop over c.Commands that appends deepCommandsFrom(child) for the
\* children from index i on.
deepCommandsOfChildren(c, path, i) ==
    IF i > Len(c.Commands) THEN <<>>
    ELSE deepCommandsFrom(c.Commands[i], Append(path, i))
            \o deepCommandsOfChildren(c, path, i + 1)

\* A listing that appends a node after its descendants.
deepCommandsFromChildrenFirst(c, path) ==
    deepCommandsOfChildren(c, path, 1) \o <<[nil |-> FALSE, path |-> path]>>

deepCommandsFrom(c, path) ==
    <<[nil |-> FALSE, path |-> path]>> \o deepCommandsOfChildren(c, path, 1)

DeepCommands(tree, includeSelf) ==
    (IF includeSelf THEN <<[nil |-> FALSE, path |-> <<>>]>> ELSE <<>>)
        \o deepCommandsOfChildren(tree, <<>>, 1)

(***************************************************************************)
(* internal/commandmodel/tree.go: PrintTree.  What is written to w is the  *)
(* sequence of its lines; a line records the node it was printed for and   *)
(* its text without the newline.  The box-drawing connectors are written   *)
(* in ASCII: "|-" for U+251C U+2500, "L-" for U+2514 U+2500 and "| " for   *)
(* U+2502 followed by a space.                                             *)
(***************************************************************************)
VisibleFlags(c, revealPrivate) ==
    IF revealPrivate THEN c.Flags
    ELSE SelectSeq(c.Flags, LAMBDA f : ~f.Private)

VisibleEnvVars(c, revealPrivate) ==
    IF revealPrivate THEN c.EnvVars
    ELSE SelectSeq(c.EnvVars, LAMBDA ev : ~ev.Private)

formatDetails(c, o) ==
    LET flagsCount == Len(VisibleFlags(c, o.RevealPrivate))
        envCount == Len(VisibleEnvVars(c, o.RevealPrivate))
        parts == <<c.Name>>
                 \o (IF c.Filename # "" THEN <<"[" \o c.Filename \o "]">> ELSE <<>>)
                 \o (IF c.Private THEN <<"(private)">> ELSE <<>>)
                 \o (IF Len(c.Alias) > 1
                     THEN <<"alias=" \o StringsJoin(Tail(c.Alias), ",")>> ELSE <<>>)
                 \o (IF flagsCount > 0
                     THEN <<"flags=" \o ToString(flagsCount)>> ELSE <<>>)
                 \o (IF envCount > 0
                     THEN <<"env=" \o ToString(envCount)>> ELSE <<>>)
    IN  StringsJoin(parts, " ")

RECURSIVE printTreeNode(_, _, _, _, _)
RECURSIVE printTreeChildren(_, _, _, _, _)

\* The loop over c.Commands of printTreeNode, from child i on.
printTreeChildren(c, path, nextPrefix, i, o) ==
    IF i > Len(c.Commands) THEN <<>>
    ELSE printTreeNode(c.Commands[i], Append(path, i), nextPrefix,
                       i = Len(c.Commands), o)
            \o printTreeChildren(c, path, nextPrefix, i + 1, o)

\* A printer that prints private nodes whatever the options.
printTreeNodeKeepPrivate(c, path, prefix, isLast, o) ==
    LET connector == IF isLast THEN "L-" ELSE "|-"
        nextPrefix == prefix \o (IF isLast THEN "  " ELSE "| ")
        line == IF o.ShowDetails THEN formatDetails(c, o)
                ELSE IF prefix = "" THEN c.FullName ELSE c.Name
        text == IF prefix = "" THEN line
                ELSE prefix \o connector \o " " \o line
    IN  <<[node |-> path, text |-> text]>>
            \o printTreeChildren(c, path, nextPrefix, 1, o)

printTreeNode(c, path, prefix, isLast, o) ==
    IF c.Private /\ ~o.RevealPrivate THEN <<>>
    ELSE LET connector == IF isLast THEN "L-" ELSE "|-"
             nextPrefix == prefix \o (IF isLast THEN "  " ELSE "| ")
             line == IF o.ShowDetails THEN formatDetails(c, o)
                     ELSE IF prefix = "" THEN c.FullName ELSE c.Name
             text == IF prefix = "" THEN line
                     ELSE prefix \o connector \o " " \o line
         IN  <<[node |-> path, text |-> text]>>
                 \o printTreeChildren(c, path, nextPrefix, 1, o)

PrintTree(tree, o) == printTreeNode(tree, <<>>, "", TRUE, o)

(***************************************************************************)
(* main.go: writeInspectOutput.  The JSON document is kept as the value it *)
(* denotes: an object is a function from its keys, an array a sequence.    *)
(* A field tagged omitempty is left out when it is empty.                  *)
(***************************************************************************)
omitempty(key, v, empty) == IF v = empty THEN <<>> ELSE key :> v

encodeArg(a) == [name |-> a.Name, required |-> a.Required]

encodeFlag(f) ==
    omitempty("long", f.Long, "") @@ omitempty("short", f.Short, "")
    @@ [required |-> f.Required, private |-> f.Private]
    @@ omitempty("allowed", f.Allowed, <<>>)

encodeEnvVar(ev) == [name |-> ev.Name, private |-> ev.Private]

RECURSIVE encodeCommand(_)
encodeCommand(c) ==
    [name |-> c.Name, full_name |-> c.FullName,
     action_name |-> c.ActionName, private |-> c.Private]
    @@ omitempty("parents", c.Parents, <<>>)
    @@ omitempty("expose", c.Expose, "")
    @@ omitempty("alias", c.Alias, <<>>)
    @@ omitempty("filename", c.Filename, "")
    @@ omitempty("description", c.Description, "")
    @@ omitempty("args", [i \in 1..Len(c.Args) |-> encodeArg(c.Args[i])], <<>>)
    @@ omitempty("flags", [i \in 1..Len(c.Flags) |-> encodeFlag(c.Flags[i])], <<>>)
    @@ omitempty("environment_variables",
                 [i \in 1..Len(c.EnvVars) |-> encodeEnvVar(c.EnvVars[i])], <<>>)
    @@ omitempty("commands",
                 [i \in 1..Len(c.Commands) |-> encodeCommand(c.Commands[i])], <<>>)

\* Settings.RevealPrivate: the reveal key names an environment variable
\* that is set.
RevealPrivate(settings, environ) ==
    /\ TrimSpace(settings.PrivateRevealKey) # ""
    /\ settings.PrivateRevealKey \in DOMAIN environ

\* Result [lines, json, err]: the lines of the tree format, the document
\* of the json format, the error of any other format.
writeInspectOutput(format, tree, settings, environ) ==
    IF format \in {"tree", ""}
    THEN [lines |-> PrintTree(tree, [ShowDetails |-> TRUE,
                                     RevealPrivate |-> RevealPrivate(settings, environ)]),
          json |-> <<>>, err |-> ""]
    ELSE IF format = "json"
    THEN [lines |-> <<>>, json |-> encodeCommand(tree), err |-> ""]
    ELSE [lines |-> <<>>, json |-> <<>>,
          err |-> "unknown --format: " \o format \o " (expected tree or json)"]

(***************************************************************************)
(* Package generate: FormatScript.                                         *)
(***************************************************************************)
\* strings.Split(s, "\n")
RECURSIVE SplitLines(_)
SplitLines(s) ==
    LET k == IndexOf(s, "\n")
    IN  IF k = 0 THEN <<s>>
        ELSE <<SubSeq(s, 1, k - 1)>> \o SplitLines(SubSeq(s, k + 1, Len(s)))

\* The loop of removeExcessNewlines over the lines still to visit.
RECURSIVE keepLines(_, _)
keepLines(lines, prevBlank) ==
    IF Len(lines) = 0 THEN <<>>
    ELSE LET isBlank == TrimSpace(lines[1]) = ""
         IN  IF isBlank /\ prevBlank THEN keepLines(Tail(lines), prevBlank)
             ELSE <<lines[1]>> \o keepLines(Tail(lines), isBlank)

removeExcessNewlines(content) ==
    StringsJoin(keepLines(SplitLines(content), FALSE), "\n")

\* What running the external formatter command can give: a failure, or an
\* exit with status 0 and some standard output.
ExternalOutcomes(content) ==
    {[failed |-> TRUE, stdout |-> ""],
     [failed |-> FALSE, stdout |-> content],
     [failed |-> FALSE, stdout |-> ""]}

\* Result [Formatted, Error]; run is the outcome of the external command.
FormatScript(content, formatter, tabIndent, run) ==
    LET indented == IF tabIndent THEN ReplaceAll(content, "  ", "\t") ELSE content
    IN  IF formatter = "internal"
        THEN [Formatted |-> removeExcessNewlines(indented), Error |-> ""]
        ELSE IF formatter = "none"
        THEN [Formatted |-> indented, Error |-> ""]
        ELSE IF run.failed
        THEN [Formatted |-> "", Error |-> "formatter failed"]
        ELSE [Formatted |-> run.stdout, Error |-> ""]

(***************************************************************************)
(* Package generate: EnsureCommandPartials.  The file system is a function *)
(* from the paths that exist to [dir, content]; the directories above an   *)
(* existing path exist.  os.Stat succeeds on the paths that exist.         *)
(***************************************************************************)
DirEntry == [dir |-> TRUE, content |-> ""]

FileEntryOf(content) == [dir |-> FALSE, content |-> content]

\* strings.LastIndex for a one-character separator; 0 when absent.
LastIndexOf(s, c) ==
    LET hits == {i \in 1..Len(s) : CharAt(s, i) = c}
    IN  IF hits = {} THEN 0 ELSE CHOOSE i \in hits : \A j \in hits : i >= j

\* filepath.Dir
FilepathDir(p) == FilepathClean(SubSeq(p, 1, LastIndexOf(p, "/")))

\* os.MkdirAll: result [fs, err].  A path that exists must be a directory;
\* otherwise the parent is made first, then the directory itself.
RECURSIVE MkdirAll(_, _)
MkdirAll(files, dir) ==
    IF dir \in DOMAIN files
    THEN [fs |-> files,
          err |-> IF files[dir].dir THEN "" ELSE "mkdir " \o dir \o ": not a directory"]
    ELSE LET up == MkdirAll(files, FilepathDir(dir))
         IN  IF up.err # "" THEN up
             ELSE [fs |-> (dir :> DirEntry) @@ up.fs, err |-> ""]

\* os.WriteFile: result [fs, err].  The path must not be a directory and
\* its parent must be one.
WriteFile(files, path, content) ==
    IF path \in DOMAIN files /\ files[path].dir
    THEN [fs |-> files, err |-> "open " \o path \o ": is a directory"]
    ELSE IF ~(FilepathDir(path) \in DOMAIN files /\ files[FilepathDir(path)].dir)
    THEN [fs |-> files, err |-> "open " \o path \o ": no such file or directory"]
    ELSE [fs |-> (path :> FileEntryOf(content)) @@ files, err |-> ""]

defaultCommandPartialContent(relPath, fullCommandName) ==
    "echo \"# This file is located at '" \o relPath \o "'.\"\n"
    \o "echo \"# It contains the implementation for the '" \o fullCommandName
    \o "' command.\"\n"
    \o "inspect_args\n"

\* The state of the loop of EnsureCommandPartials: the result so far, the
\* error that ended it, the file system, and the record of the writes made
\* (the path and whether it existed just before the write).
StartOfLoop(files) ==
    [Created |-> <<>>, Skipped |-> <<>>, err |-> "", fs |-> files, writes |-> <<>>]

\* One iteration that overwrites without looking at the file system.
ensurePartialAlwaysForce(acc, c, settings, o) ==
    IF c.Filename = "" THEN acc
    ELSE
    LET srcDir == FilepathJoin(o.Workdir, settings.SourceDir)
        path == FilepathJoin(srcDir, c.Filename)
        made == MkdirAll(acc.fs, FilepathDir(path))
        content == defaultCommandPartialContent(
                        FilepathJoin(settings.SourceDir, c.Filename), c.FullName)
        written == WriteFile(made.fs, path, content)
    IN  IF o.DryRun
        THEN [acc EXCEPT !.Created = Append(@, path)]
        ELSE IF made.err # ""
        THEN [acc EXCEPT !.err = "create directory: " \o made.err]
        ELSE IF written.err # ""
        THEN [acc EXCEPT !.err = "write partial: " \o written.err, !.fs = made.fs]
        ELSE [acc EXCEPT !.Created = Append(@, path), !.fs = written.fs,
                         !.writes = Append(@, [path |-> path,
                                               existed |-> path \in DOMAIN acc.fs])]

\* One iteration of the loop, for the command c.
ensurePartial(acc, c, settings, o) ==
    IF c.Filename = "" THEN acc
    ELSE
    LET srcDir == FilepathJoin(o.Workdir, settings.SourceDir)
        path == FilepathJoin(srcDir, c.Filename)
        made == MkdirAll(acc.fs, FilepathDir(path))
        content == defaultCommandPartialContent(
                        FilepathJoin(settings.SourceDir, c.Filename), c.FullName)
        written == WriteFile(made.fs, path, content)
    IN  IF ~o.Force /\ path \in DOMAIN acc.fs
        THEN [acc EXCEPT !.Skipped = Append(@, path)]
        ELSE IF o.DryRun
        THEN [acc EXCEPT !.Created = Append(@, path)]
        ELSE IF made.err # ""
        THEN [acc EXCEPT !.err = "create directory: " \o made.err]
        ELSE IF written.err # ""
        THEN [acc EXCEPT !.err = "write partial: " \o written.err, !.fs = made.fs]
        ELSE [acc EXCEPT !.Created = Append(@, path), !.fs = written.fs,
                         !.writes = Append(@, [path |-> path,
                                               existed |-> path \in DOMAIN acc.fs])]

\* The loop over cmds from index i on; it ends at the first error.
RECURSIVE ensureFrom(_, _, _, _, _, _)
ensureFrom(acc, tree, cmds, i, settings, o) ==
    IF i > Len(cmds) \/ acc.err # "" THEN acc
    ELSE ensureFrom(ensurePartial(acc, NodeAt(tree, cmds[i].path), settings, o),
                    tree, cmds, i + 1, settings, o)

\* Result [Created, Skipped, err, fs, writes].
EnsureCommandPartials(tree, settings, o, files) ==
    ensureFrom(StartOfLoop(files), tree, DeepCommands(tree, TRUE), 1, settings, o)

(***************************************************************************)
(* internal/settings/settings.go: Load.  The settings file is the value    *)
(* its YAML denotes (or is absent, or cannot be read); the environment is  *)
(* a function from the variables that are set to their values.             *)
(***************************************************************************)
\* Default()
DefaultSettings ==
    [Env |-> "development", SourceDir |-> "src",
     ConfigPath |-> "%{source_dir}/bashly.yml", TargetDir |-> ".",
     CommandsDir |-> "", LibDir |-> "lib", ExtraLibDirs |-> <<>>,
     PartialsExtension |-> "sh", TabIndent |-> FALSE,
     Formatter |-> "internal", EnableHeaderComment |-> "always",
     EnableBash3Bouncer |-> "always", EnableInspectArgs |-> "development",
     EnableViewMarkers |-> "development", EnableDepsArray |-> "always",
     EnableEnvVarNamesArray |-> "always", EnableSourcing |-> "development",
     PrivateRevealKey |-> ""]

\* strings.Split for a one-character separator.
RECURSIVE StringsSplit(_, _)
StringsSplit(s, sep) ==
    LET k == IndexOf(s, sep)
    IN  IF k = 0 THEN <<s>>
        ELSE <<SubSeq(s, 1, k - 1)>> \o StringsSplit(SubSeq(s, k + 1, Len(s)), sep)

\* v, ok := m[key].(string); ok
mapString(m, key, cur) ==
    IF key \in DOMAIN m /\ m[key].t = "string" THEN m[key].s ELSE cur

\* v, ok := m[key].(string); ok && v != ""
mapNonEmpty(m, key, cur) ==
    IF key \in DOMAIN m /\ m[key].t = "string" /\ m[key].s # "" THEN m[key].s
    ELSE cur

\* A key whose nil value means the empty string.
mapNilable(m, key, cur) ==
    IF key \notin DOMAIN m THEN cur
    ELSE IF m[key].t = "nil" THEN ""
    ELSE IF m[key].t = "string" THEN m[key].s
    ELSE cur

\* The string items of a list.
RECURSIVE stringItems(_)
stringItems(l) ==
    IF Len(l) = 0 THEN <<>>
    ELSE (IF l[1].t = "string" THEN <<l[1].s>> ELSE <<>>) \o stringItems(Tail(l))

mapStrings(m, key, cur) ==
    IF key \notin DOMAIN m THEN cur
    ELSE IF m[key].t = "nil" THEN <<>>
    ELSE IF m[key].t = "list" THEN stringItems(m[key].l)
    ELSE cur

mapBool(m, key, cur) ==
    IF key \notin DOMAIN m THEN cur
    ELSE IF m[key].t = "nil" THEN FALSE
    ELSE IF m[key].t = "bool" THEN m[key].b
    ELSE cur

applyMap(s, m) ==
    [Env                    |-> mapNonEmpty(m, "env", s.Env),
     SourceDir              |-> mapString(m, "source_dir", s.SourceDir),
     ConfigPath             |-> mapString(m, "config_path", s.ConfigPath),
     TargetDir              |-> mapString(m, "target_dir", s.TargetDir),
     CommandsDir            |-> mapNilable(m, "commands_dir", s.CommandsDir),
     LibDir                 |-> mapNonEmpty(m, "lib_dir", s.LibDir),
     ExtraLibDirs           |-> mapStrings(m, "extra_lib_dirs", s.ExtraLibDirs),
     PartialsExtension      |-> mapNonEmpty(m, "partials_extension", s.PartialsExtension),
     TabIndent              |-> mapBool(m, "tab_indent", s.TabIndent),
     Formatter              |-> mapNonEmpty(m, "formatter", s.Formatter),
     EnableHeaderComment    |-> mapNonEmpty(m, "enable_header_comment", s.EnableHeaderComment),
     EnableBash3Bouncer     |-> mapNonEmpty(m, "enable_bash3_bouncer", s.EnableBash3Bouncer),
     EnableInspectArgs      |-> mapNonEmpty(m, "enable_inspect_args", s.EnableInspectArgs),
     EnableViewMarkers      |-> mapNonEmpty(m, "enable_view_markers", s.EnableViewMarkers),
     EnableDepsArray        |-> mapNonEmpty(m, "enable_deps_array", s.EnableDepsArray),
     EnableEnvVarNamesArray |-> mapNonEmpty(m, "enable_env_var_names_array",
                                            s.EnableEnvVarNamesArray),
     EnableSourcing         |-> mapNonEmpty(m, "enable_sourcing", s.EnableSourcing),
     PrivateRevealKey       |-> mapNilable(m, "private_reveal_key", s.PrivateRevealKey)]

applyPerEnvOverrides(s, m) ==
    LET env == TrimSpace(s.Env)
    IN  IF env = "" THEN s
        ELSE
        [Env                    |-> s.Env,
         SourceDir              |-> mapString(m, "source_dir_" \o env, s.SourceDir),
         ConfigPath             |-> mapString(m, "config_path_" \o env, s.ConfigPath),
         TargetDir              |-> mapString(m, "target_dir_" \o env, s.TargetDir),
         CommandsDir            |-> mapNilable(m, "commands_dir_" \o env, s.CommandsDir),
         LibDir                 |-> mapNonEmpty(m, "lib_dir_" \o env, s.LibDir),
         ExtraLibDirs           |-> mapStrings(m, "extra_lib_dirs_" \o env, s.ExtraLibDirs),
         PartialsExtension      |-> mapNonEmpty(m, "partials_extension_" \o env,
                                                s.PartialsExtension),
         TabIndent              |-> mapBool(m, "tab_indent_" \o env, s.TabIndent),
         Formatter              |-> mapNonEmpty(m, "formatter_" \o env, s.Formatter),
         EnableHeaderComment    |-> mapNonEmpty(m, "enable_header_comment_" \o env,
                                                s.EnableHeaderComment),
         EnableBash3Bouncer     |-> mapNonEmpty(m, "enable_bash3_bouncer_" \o env,
                                                s.EnableBash3Bouncer),
         EnableInspectArgs      |-> mapNonEmpty(m, "enable_inspect_args_" \o env,
                                                s.EnableInspectArgs),
         EnableViewMarkers      |-> mapNonEmpty(m, "enable_view_markers_" \o env,
                                                s.EnableViewMarkers),
         EnableDepsArray        |-> mapNonEmpty(m, "enable_deps_array_" \o env,
                                                s.EnableDepsArray),
         EnableEnvVarNamesArray |-> mapNonEmpty(m, "enable_env_var_names_array_" \o env,
                                                s.EnableEnvVarNamesArray),
         EnableSourcing         |-> mapNonEmpty(m, "enable_sourcing_" \o env,
                                                s.EnableSourcing),
         PrivateRevealKey       |-> mapNilable(m, "private_reveal_key_" \o env,
                                               s.PrivateRevealKey)]

\* v, ok := os.LookupEnv(name); ok
envAny(environ, name, cur) ==
    IF name \in DOMAIN environ THEN environ[name] ELSE cur

\* v, ok := os.LookupEnv(name); ok && v != ""
envNonEmpty(environ, name, cur) ==
    IF name \in DOMAIN environ /\ environ[name] # "" THEN environ[name] ELSE cur

\* Result [value, ok].
parseEnvBool(s) ==
    LET t == TrimSpace(ToLower(s))
    IN  IF t \in {"0", "false", "no"} THEN [value |-> FALSE, ok |-> TRUE]
        ELSE IF t \in {"1", "true", "yes"} THEN [value |-> TRUE, ok |-> TRUE]
        ELSE [value |-> FALSE, ok |-> FALSE]

envBool(environ, name, cur) ==
    IF name \in DOMAIN environ /\ parseEnvBool(environ[name]).ok
    THEN parseEnvBool(environ[name]).value
    ELSE cur

envList(environ, name, cur) ==
    IF name \in DOMAIN environ
    THEN LET parts == StringsSplit(environ[name], ",")
         IN  [i \in 1..Len(parts) |-> TrimSpace(parts[i])]
    ELSE cur

applyEnv(s, environ) ==
    [Env                    |-> envNonEmpty(environ, "BASHLY_ENV", s.Env),
     SourceDir              |-> envAny(environ, "BASHLY_SOURCE_DIR", s.SourceDir),
     ConfigPath             |-> envAny(environ, "BASHLY_CONFIG_PATH", s.ConfigPath),
     TargetDir              |-> envAny(environ, "BASHLY_TARGET_DIR", s.TargetDir),
     CommandsDir            |-> envAny(environ, "BASHLY_COMMANDS_DIR", s.CommandsDir),
     LibDir                 |-> envAny(environ, "BASHLY_LIB_DIR", s.LibDir),
     ExtraLibDirs           |-> envList(environ, "BASHLY_EXTRA_LIB_DIRS", s.ExtraLibDirs),
     PartialsExtension      |-> envNonEmpty(environ, "BASHLY_PARTIALS_EXTENSION",
                                            s.PartialsExtension),
     TabIndent              |-> envBool(environ, "BASHLY_TAB_INDENT", s.TabIndent),
     Formatter              |-> envNonEmpty(environ, "BASHLY_FORMATTER", s.Formatter),
     EnableHeaderComment    |-> envNonEmpty(environ, "BASHLY_ENABLE_HEADER_COMMENT",
                                            s.EnableHeaderComment),
     EnableBash3Bouncer     |-> envNonEmpty(environ, "BASHLY_ENABLE_BASH3_BOUNCER",
                                            s.EnableBash3Bouncer),
     EnableInspectArgs      |-> envNonEmpty(environ, "BASHLY_ENABLE_INSPECT_ARGS",
                                            s.EnableInspectArgs),
     EnableViewMarkers      |-> envNonEmpty(environ, "BASHLY_ENABLE_VIEW_MARKERS",
                                            s.EnableViewMarkers),
     EnableDepsArray        |-> envNonEmpty(environ, "BASHLY_ENABLE_DEPS_ARRAY",
                                            s.EnableDepsArray),
     EnableEnvVarNamesArray |-> envNonEmpty(environ, "BASHLY_ENABLE_ENV_VAR_NAMES_ARRAY",
                                            s.EnableEnvVarNamesArray),
     EnableSourcing         |-> envNonEmpty(environ, "BASHLY_ENABLE_SOURCING",
                                            s.EnableSourcing),
     PrivateRevealKey       |-> envAny(environ, "BASHLY_PRIVATE_REVEAL_KEY",
                                       s.PrivateRevealKey)]

\* Settings{} of the error returns.
ZeroSettings ==
    [Env |-> "", SourceDir |-> "", ConfigPath |-> "", TargetDir |-> "",
     CommandsDir |-> "", LibDir |-> "", ExtraLibDirs |-> <<>>,
     PartialsExtension |-> "", TabIndent |-> FALSE, Formatter |-> "",
     EnableHeaderComment |-> "", EnableBash3Bouncer |-> "",
     EnableInspectArgs |-> "", EnableViewMarkers |-> "", EnableDepsArray |-> "",
     EnableEnvVarNamesArray |-> "", EnableSourcing |-> "", PrivateRevealKey |-> ""]

\* loadYAMLMap: "" or the error.
loadYAMLMap(file) ==
    IF file.t = "unreadable" THEN "read settings: no such file or directory"
    ELSE IF file.t # "map" THEN "settings root must be a YAML mapping"
    ELSE ""

\* The interpolation of config_path that ends Load.
interpolate(s) ==
    [s EXCEPT !.ConfigPath = ReplaceAll(s.ConfigPath, "%{source_dir}", s.SourceDir)]

\* A Load that reads the environment once, before the per-environment
\* overrides of the file.
LoadEnvOnce(file, environ) ==
    IF file.t = "absent"
    THEN [st |-> interpolate(applyEnv(DefaultSettings, environ)), err |-> ""]
    ELSE IF loadYAMLMap(file) # ""
    THEN [st |-> ZeroSettings, err |-> loadYAMLMap(file)]
    ELSE [st |-> interpolate(
                    applyPerEnvOverrides(
                        applyEnv(applyMap(DefaultSettings, file.m), environ), file.m)),
          err |-> ""]

\* Result [st, err].
Load(file, environ) ==
    IF file.t = "absent"
    THEN [st |-> interpolate(applyEnv(DefaultSettings, environ)), err |-> ""]
    ELSE IF loadYAMLMap(file) # ""
    THEN [st |-> ZeroSettings, err |-> loadYAMLMap(file)]
    ELSE [st |-> interpolate(
                    applyEnv(
                        applyPerEnvOverrides(
                            applyEnv(applyMap(DefaultSettings, file.m), environ), file.m),
                        environ)),
          err |-> ""]

(***************************************************************************)
(* Package bashlyconfig: LoadComposedConfig and composition of imports.    *)
(* A YAML file is kept as the value its text denotes, [t |-> "invalid"]    *)
(* for text that does not parse; a path outside the file system cannot be  *)
(* read.  A result is [v, err] with v = Nil on an error.  Go leaves the    *)
(* order in which a range statement visits the keys of a map unspecified,  *)
(* and it differs from run to run: every function here yields the set of   *)
(* the results that the possible orders produce.                           *)
(***************************************************************************)
Ok(v) == [v |-> v, err |-> ""]

Failure(msg) == [v |-> Nil, err |-> msg]

\* filepath.IsAbs on a Unix path.
IsAbs(p) == HasPrefix(p, "/")

\* The directory the process runs in.
Getwd == "/"

\* filepath.Abs
FilepathAbs(p) == IF IsAbs(p) THEN FilepathClean(p) ELSE FilepathJoin(Getwd, p)

\* loadAnyYAMLFile: os.ReadFile, then yaml.Unmarshal.
loadAnyYAMLFile(files, path) ==
    IF path \notin DOMAIN files THEN Failure("cannot read yaml file " \o path)
    ELSE IF files[path].t = "invalid" THEN Failure("cannot parse yaml file " \o path)
    ELSE Ok(files[path])

\* The orders in which a range statement can visit the keys of a map.
RangeOrders(keys) ==
    {order \in [1..Cardinality(keys) -> keys] :
        \A i, j \in 1..Cardinality(keys) : i # j => order[i] # order[j]}

RECURSIVE composeAny(_, _, _, _)
RECURSIVE composeListFrom(_, _, _, _, _, _)
RECURSIVE composeMapFrom(_, _, _, _, _, _, _)

\* The loop of composeAny over a list, from element i on.
composeListFrom(l, i, out, keyword, workdir, files) ==
    IF i > Len(l) THEN {Ok(List(out))}
    ELSE UNION {IF cx.err # "" THEN {cx}
                ELSE composeListFrom(l, i + 1, Append(out, cx.v), keyword, workdir, files)
                   : cx \in composeAny(l[i], keyword, workdir, files)}

\* The loop of composeMap visiting the keys of m in the given order, from
\* the i-th key on, with the result map built so far.
composeMapFrom(m, order, i, res, keyword, workdir, files) ==
    IF i > Len(order) THEN {Ok(Map(res))}
    ELSE
    LET k == order[i]
    IN
    IF k = keyword
    THEN IF m[k].t # "string" THEN {Failure(keyword \o " must be a string path")}
         ELSE
         LET importPath == m[k].s
             resolved == IF IsAbs(importPath) THEN importPath
                         ELSE FilepathJoin(workdir, importPath)
             sub == loadAnyYAMLFile(files, resolved)
         IN  IF sub.err # "" THEN {Failure("cannot find import file " \o importPath)}
             ELSE UNION {IF sc.err # "" THEN {sc}
                         ELSE IF sc.v.t = "list" THEN {sc}
                         ELSE IF sc.v.t # "map"
                         THEN {Failure("cannot find a valid YAML in " \o importPath)}
                         ELSE composeMapFrom(m, order, i + 1, sc.v.m @@ res,
                                             keyword, workdir, files)
                            : sc \in composeAny(sub.v, keyword, workdir, files)}
    ELSE UNION {IF cv.err # "" THEN {cv}
                ELSE composeMapFrom(m, order, i + 1, (k :> cv.v) @@ res,
                                    keyword, workdir, files)
                   : cv \in composeAny(m[k], keyword, workdir, files)}

composeMap(m, keyword, workdir, files) ==
    UNION {composeMapFrom(m, order, 1, <<>>, keyword, workdir, files)
              : order \in RangeOrders(DOMAIN m)}

composeAny(v, keyword, workdir, files) ==
    IF v.t = "map" THEN composeMap(v.m, keyword, workdir, files)
    ELSE IF v.t = "list" THEN composeListFrom(v.l, 1, <<>>, keyword, workdir, files)
    ELSE {Ok(v)}

LoadComposedConfig(path, keyword, workdir, files) ==
    LET wd == FilepathAbs(workdir)
        configPath == IF IsAbs(path) THEN path ELSE FilepathJoin(wd, path)
        abspath == FilepathAbs(configPath)
        loaded == loadAnyYAMLFile(files, abspath)
    IN  IF loaded.err # "" THEN {loaded}
        ELSE {IF composed.err # "" THEN composed
              ELSE IF composed.v.t # "map"
              THEN Failure("config root must be a YAML mapping")
              ELSE composed
                 : composed \in composeAny(loaded.v, keyword, wd, files)}

(***************************************************************************)
(* Inputs.  A run receives a configuration mapping, the settings and an    *)
(* argument vector.                                                        *)
(***************************************************************************)
SeqsUpTo(S, n) == UNION {[1..k -> S] : k \in 0..n}

DirSettings ==
    [DefaultSettings EXCEPT !.PartialsExtension = "", !.CommandsDir = "cmds"]

\* The Quick Start configuration of the README.
MyCliConfig ==
    [name     |-> Str("mycli"),
     args     |-> List(<<Map([name |-> Str("source"), required |-> Bool(TRUE)])>>),
     flags    |-> List(<<Map([long |-> Str("--verbose"), short |-> Str("-v")])>>),
     commands |-> List(<<>>)]

MyCliTokens == {"file.txt", "--verbose", "-v", "source"}

\* A command with a required argument and a required flag with allowed values.
CopyConfig ==
    [name  |-> Str("copy"),
     args  |-> List(<<Map([name |-> Str("src"), required |-> Bool(TRUE)])>>),
     flags |-> List(<<Map([long     |-> Str("--out"),
                           required |-> Bool(TRUE),
                           allowed  |-> List(<<Str("a"), Str("b")>>)])>>)]

CopyTokens == {"src", "--out", "--out=c", "--out=a", "--out=", "a", "c"}

\* Required flags declared with both forms, and with a short form only.
SendConfig ==
    [name  |-> Str("send"),
     flags |-> List(<<Map([long |-> Str("--to"), short |-> Str("-t"),
                           required |-> Bool(TRUE)]),
                      Map([short |-> Str("-k"), required |-> Bool(TRUE)]),
                      Map([long |-> Str("--mode"), short |-> Str("-m"),
                           allowed |-> List(<<Str("x")>>)])>>)]

SendTokens == {"--to", "-t", "-k", "-m", "x", "y", "--to=", "--mode=y"}

\* Sub-commands with plain and wildcard aliases.
TreeConfig ==
    [name     |-> Str("cli"),
     commands |-> List(<<
        Map([name |-> Str("full"), alias |-> List(<<Str("f*")>>)]),
        Map([name     |-> Str("get"),
             alias    |-> Str("g"),
             commands |-> List(<<Map([name |-> Str("sub")]),
                                 Map([name |-> Str("full"), alias |-> Str("*s")])>>)])>>)]

TreeTokens == {"full", "foo", "f*", "get", "g", "sub", "*sx", "--help", "-h", "x"}

\* No declarations at all: only the tokenizer is exercised.
PlainConfig == [name |-> Str("t")]

PlainTokens ==
    {"--name=foo", "--name", "foo", "--other", "--a=b=c", "-abc", "-n", "-", "x", "--help"}

\* Siblings whose aliases are names of siblings declared after them, and a
\* sibling with the alias "*".
ShadowConfig ==
    [name     |-> Str("cli"),
     commands |-> List(<<
        Map([name     |-> Str("up"),
             alias    |-> Str("down"),
             commands |-> List(<<Map([name |-> Str("a"), alias |-> List(<<Str("b")>>)]),
                                 Map([name |-> Str("b")])>>)]),
        Map([name |-> Str("down")]),
        Map([name |-> Str("any"), alias |-> Str("*")]),
        Map([name |-> Str("last")])>>)]

ShadowTokens == {"up", "down", "a", "b", "last"}

\* A configuration with the vocabulary its argument vectors are drawn from.
Scenarios ==
    {<<MyCliConfig, MyCliTokens>>, <<CopyConfig, CopyTokens>>,
     <<SendConfig, SendTokens>>, <<TreeConfig, TreeTokens>>,
     <<PlainConfig, PlainTokens>>, <<ShadowConfig, ShadowTokens>>}

\* Entries of a commands list that cannot carry children.
LeafEntries ==
    {Str("x"),
     Map([description |-> Str("d")]),
     Map([name |-> Str("")]),
     Map([name |-> Bool(TRUE)]),
     Map([name |-> Str("a"), commands |-> Str("x")]),
     Map([name |-> Str("b"), commands |-> Nil])}

EntryNames == {"a", "b"}

NamedEntry(nm, sub) ==
    IF sub = <<>> THEN Map([name |-> Str(nm)])
    ELSE Map([name |-> Str(nm), commands |-> List(sub)])

\* All commands lists holding exactly n entries over all levels.
RECURSIVE ForestsOf(_)
RECURSIVE EntriesOf(_)
ForestsOf(n) ==
    IF n = 0 THEN {<<>>}
    ELSE UNION {{<<e>> \o f : e \in EntriesOf(k), f \in ForestsOf(n - k)} : k \in 1..n}

EntriesOf(n) ==
    (IF n = 1 THEN LeafEntries ELSE {})
        \cup {NamedEntry(nm, sub) : nm \in EntryNames, sub \in ForestsOf(n - 1)}

StructConfigs ==
    {[name |-> Str("app"), commands |-> List(f)]
        : f \in UNION {ForestsOf(n) : n \in 0..MaxNodes}}
    \cup {EmptyMap, [commands |-> Str("x")], [name |-> Str("app"), commands |-> Nil]}

\* Entries of an args / flags / environment_variables list.
DeclEntries ==
    {Str("x"),
     Nil,
     Map([long |-> Str("--l"), required |-> Bool(TRUE)]),
     Map([name |-> Str(""), short |-> Str("-e")]),
     Map([name |-> Bool(TRUE)]),
     Map([name |-> Str("n"), long |-> Str("--n"), required |-> Bool(TRUE),
          allowed |-> List(<<Str("a"), Bool(TRUE), Str("b")>>)]),
     Map([name |-> Str("m"), short |-> Str("-m"), private |-> Bool(TRUE)])}

DeclValues ==
    {List(l) : l \in SeqsUpTo(DeclEntries, MaxDecl)}
        \cup {Nil, Str("x"), Map([name |-> Str("n")])}

\* The declaration keys of one node: one key set, or all three.
DeclMaps ==
    UNION {{[args |-> v], [flags |-> v], [environment_variables |-> v],
            [args |-> v, flags |-> v, environment_variables |-> v]}
              : v \in DeclValues}

DeclConfigs ==
    UNION {{[name |-> Str("app")] @@ d,
            [name |-> Str("app"),
             commands |-> List(<<Map([name |-> Str("a")] @@ d)>>)]}
              : d \in DeclMaps}

AliasValues ==
    {Nil, Str("x"), Str(""), Str("x*"), Bool(TRUE), List(<<>>),
     List(<<Str("y"), Str(""), Bool(FALSE), Str("z*")>>),
     Map([name |-> Str("x")])}

AliasConfigs ==
    {[name |-> Str("app"), alias |-> v,
      commands |-> List(<<Map([name |-> Str("a"), alias |-> v])>>)]
        : v \in AliasValues}

\* Commands lists of well-formed entries, public and private, holding
\* exactly n entries over all levels.
PrivateEntry(nm, private, sub) ==
    Map([name |-> Str(nm)]
        @@ (IF private THEN [private |-> Bool(TRUE)] ELSE <<>>)
        @@ (IF sub = <<>> THEN <<>> ELSE [commands |-> List(sub)]))

RECURSIVE PrivateForestsOf(_)
PrivateForestsOf(n) ==
    IF n = 0 THEN {<<>>}
    ELSE UNION {{<<PrivateEntry(nm, private, sub)>> \o f
                    : nm \in EntryNames, private \in BOOLEAN,
                      sub \in PrivateForestsOf(k - 1), f \in PrivateForestsOf(n - k)}
                  : k \in 1..n}

PrivateConfigs ==
    {[name |-> Str("app"), commands |-> List(f)]
        : f \in UNION {PrivateForestsOf(n) : n \in 0..MaxNodes}}

\* Command names with upper case, a hyphen, a space, a slash and a leading
\* tab; values of the filename key; a child of the root and a child of it.
NameSet == {"get", "Get-All", "my cmd", "a/b", "\tx"}

FilenameValues == {Nil, Str(""), Str("Custom/My File.sh"), Bool(TRUE)}

FileEntry(nm, fn, sub) ==
    Map([name |-> Str(nm), filename |-> fn]
        @@ (IF sub = <<>> THEN <<>> ELSE [commands |-> List(sub)]))

NameConfigs ==
    {[name |-> Str("app"), commands |-> List(<<FileEntry(nm, fn, <<>>)>>)]
        : nm \in NameSet, fn \in FilenameValues}
    \cup
    {[name |-> Str("app"),
      commands |-> List(<<FileEntry(nm, fn, <<FileEntry(nm2, fn2, <<>>)>>)>>)]
        : nm \in NameSet, fn \in FilenameValues,
          nm2 \in NameSet, fn2 \in FilenameValues}

\* Commands without filename keys: a child of the root with an optional
\* child of its own, and a second child of the root; the names include the
\* root's action name and names that differ by a hyphen, an underscore, a
\* space or the case of a letter only.
PartialNames == {"root", "a", "b", "a b", "a-b", "a_b", "A"}

PartialConfigs ==
    {[name |-> Str("app"),
      commands |-> List(<<Map([name |-> Str(n1)]
                              @@ (IF n3 = "" THEN <<>>
                                  ELSE [commands |-> List(<<Map([name |-> Str(n3)])>>)])),
                          Map([name |-> Str(n2)])>>)]
        : n1 \in PartialNames, n2 \in PartialNames, n3 \in PartialNames \cup {""}}

NameSettings ==
    {[DefaultSettings EXCEPT !.CommandsDir = dir, !.PartialsExtension = ext]
        : dir \in {"", "cmds", "cmds/"}, ext \in {"", "bash"}}

\* Settings naming a reveal key, and an environment that sets it.
RevealSettings == [DefaultSettings EXCEPT !.PrivateRevealKey = "REVEAL"]
RevealEnv == [REVEAL |-> "1"]

\* Trees to generate partials for: a child with a child of its own before
\* another child; two children of the same name; explicit filenames of
\* which one lies below the other.
GenerateConfigs ==
    {[name |-> Str("app"),
      commands |-> List(<<Map([name |-> Str("a"),
                               commands |-> List(<<Map([name |-> Str("b")])>>)]),
                          Map([name |-> Str("c")])>>)],
     [name |-> Str("app"),
      commands |-> List(<<Map([name |-> Str("a")]), Map([name |-> Str("a")])>>)],
     [name |-> Str("app"),
      commands |-> List(<<Map([name |-> Str("x"), filename |-> Str("lib")]),
                          Map([name |-> Str("y"), filename |-> Str("lib/y.sh")])>>)]}

Workdir == "/w"

\* A path with the directories above it.
RECURSIVE AncestorsOrSelf(_)
AncestorsOrSelf(p) ==
    IF p = "/" \/ p = "." THEN {p} ELSE {p} \cup AncestorsOrSelf(FilepathDir(p))

\* The paths EnsureCommandPartials looks at for a tree, below the working
\* directory.
PartialPaths(tree, settings) ==
    {FilepathJoin(FilepathJoin(Workdir, settings.SourceDir), NodeAt(tree, p).Filename)
        : p \in PathsOf(tree)}

CandidatePaths(tree, settings) ==
    UNION {AncestorsOrSelf(p) : p \in PartialPaths(tree, settings)}
        \ AncestorsOrSelf(Workdir)

\* The starting file systems: the working directory exists, each candidate
\* path is absent, a file or a directory, and what exists lies in a
\* directory that exists.
StartFileSystems(tree, settings) ==
    LET cand == CandidatePaths(tree, settings)
        ok(f) == \A p \in cand :
                    f[p] # "absent" =>
                        \/ FilepathDir(p) = Workdir
                        \/ f[FilepathDir(p)] = "dir"
    IN  {[p \in AncestorsOrSelf(Workdir) \cup {q \in cand : f[q] # "absent"} |->
            IF p \in cand /\ f[p] = "file" THEN FileEntryOf("old") ELSE DirEntry]
            : f \in {g \in [cand -> {"absent", "file", "dir"}] : ok(g)}}

\* The settings other than env: the key of the file, the field of Settings
\* and the environment variable of each.
SettingKeys ==
    {"source_dir", "config_path", "target_dir", "commands_dir", "lib_dir",
     "extra_lib_dirs", "partials_extension", "tab_indent", "formatter",
     "enable_header_comment", "enable_bash3_bouncer", "enable_inspect_args",
     "enable_view_markers", "enable_deps_array", "enable_env_var_names_array",
     "enable_sourcing", "private_reveal_key"}

FieldOf(key) ==
    CASE key = "env" -> "Env"
      [] key = "source_dir" -> "SourceDir"
      [] key = "config_path" -> "ConfigPath"
      [] key = "target_dir" -> "TargetDir"
      [] key = "commands_dir" -> "CommandsDir"
      [] key = "lib_dir" -> "LibDir"
      [] key = "extra_lib_dirs" -> "ExtraLibDirs"
      [] key = "partials_extension" -> "PartialsExtension"
      [] key = "tab_indent" -> "TabIndent"
      [] key = "formatter" -> "Formatter"
      [] key = "enable_header_comment" -> "EnableHeaderComment"
      [] key = "enable_bash3_bouncer" -> "EnableBash3Bouncer"
      [] key = "enable_inspect_args" -> "EnableInspectArgs"
      [] key = "enable_view_markers" -> "EnableViewMarkers"
      [] key = "enable_deps_array" -> "EnableDepsArray"
      [] key = "enable_env_var_names_array" -> "EnableEnvVarNamesArray"
      [] key = "enable_sourcing" -> "EnableSourcing"
      [] key = "private_reveal_key" -> "PrivateRevealKey"

VarOf(key) ==
    CASE key = "env" -> "BASHLY_ENV"
      [] key = "source_dir" -> "BASHLY_SOURCE_DIR"
      [] key = "config_path" -> "BASHLY_CONFIG_PATH"
      [] key = "target_dir" -> "BASHLY_TARGET_DIR"
      [] key = "commands_dir" -> "BASHLY_COMMANDS_DIR"
      [] key = "lib_dir" -> "BASHLY_LIB_DIR"
      [] key = "extra_lib_dirs" -> "BASHLY_EXTRA_LIB_DIRS"
      [] key = "partials_extension" -> "BASHLY_PARTIALS_EXTENSION"
      [] key = "tab_indent" -> "BASHLY_TAB_INDENT"
      [] key = "formatter" -> "BASHLY_FORMATTER"
      [] key = "enable_header_comment" -> "BASHLY_ENABLE_HEADER_COMMENT"
      [] key = "enable_bash3_bouncer" -> "BASHLY_ENABLE_BASH3_BOUNCER"
      [] key = "enable_inspect_args" -> "BASHLY_ENABLE_INSPECT_ARGS"
      [] key = "enable_view_markers" -> "BASHLY_ENABLE_VIEW_MARKERS"
      [] key = "enable_deps_array" -> "BASHLY_ENABLE_DEPS_ARRAY"
      [] key = "enable_env_var_names_array" -> "BASHLY_ENABLE_ENV_VAR_NAMES_ARRAY"
      [] key = "enable_sourcing" -> "BASHLY_ENABLE_SOURCING"
      [] key = "private_reveal_key" -> "BASHLY_PRIVATE_REVEAL_KEY"

\* What the file holds under the plain key of a setting.
PlainValues == {Nil, Str("plain"), Bool(TRUE), List(<<Str("d"), Bool(TRUE)>>)}

\* The environment names the file has overrides for, and the override of a
\* setting for one of them, a value of the type the setting takes.
EnvNames == {"production", "staging", "development"}

OverrideValue(key, env) ==
    IF key = "tab_indent" THEN Bool(TRUE)
    ELSE IF key = "extra_lib_dirs" THEN List(<<Str("over-" \o env)>>)
    ELSE Str("over-" \o env)

\* Values of an environment variable.
VarValues == {"", "e, f", "yes", "0", "%{source_dir}/e"}

\* A function with the key when present holds, the empty one otherwise.
Maybe(present, key, value) == IF present THEN key :> value ELSE <<>>

\* The settings files about one setting: its plain key, its overrides and
\* the env key, each present or not.
SettingsFiles(key) ==
    {Map(plain @@ envKey
         @@ Maybe("production" \in over, key \o "_production",
                  OverrideValue(key, "production"))
         @@ Maybe("staging" \in over, key \o "_staging",
                  OverrideValue(key, "staging"))
         @@ Maybe("development" \in over, key \o "_development",
                  OverrideValue(key, "development")))
        : plain \in {<<>>} \cup {key :> v : v \in PlainValues},
          envKey \in {<<>>, [env |-> Str("staging")]},
          over \in SUBSET EnvNames}

\* The environments about one setting: its variable and BASHLY_ENV, each
\* set or not.
Environments(key) ==
    {var @@ envVar
        : var \in {<<>>} \cup {VarOf(key) :> v : v \in VarValues},
          envVar \in {<<>>} \cup {"BASHLY_ENV" :> v : v \in {"", "production", " production "}}}

\* Files to compose: the configuration file, a file a.yml that it imports
\* and a file b.yml that a.yml may import in turn.  No file imports itself,
\* directly or through another: composition of such files does not end.
Unparsed == [t |-> "invalid"]

MainDocs ==
    {Map([import |-> Str("a.yml")]),
     Map([import |-> Str("a.yml"), name |-> Str("main")]),
     Map([name     |-> Str("main"),
          commands |-> List(<<Map([import |-> Str("a.yml")]),
                              Map([name |-> Str("c"), import |-> Str("/w/a.yml")])>>)]),
     Map([name |-> Str("main"), commands |-> Map([import |-> Str("a.yml")])]),
     Map([import |-> Bool(TRUE), name |-> Map([import |-> Str("none.yml")])]),
     List(<<Map([import |-> Str("a.yml")])>>),
     Unparsed}

ImportedDocs ==
    {Map([name |-> Str("lib")]),
     Map([name |-> Str("lib"), help |-> Str("h")]),
     List(<<Map([name |-> Str("x")])>>),
     Str("s"),
     Nil,
     Unparsed,
     Map([import |-> Str("b.yml")]),
     Map([import |-> Str("b.yml"), name |-> Str("lib")]),
     Map([import |-> Bool(TRUE)])}

DeepDocs == {Map([name |-> Str("deep")]), List(<<>>)}

\* The file systems: each of the three files present or not.
ComposeFileSystems ==
    {main @@ a @@ b :
        main \in {<<>>} \cup {"/w/bashly.yml" :> d : d \in MainDocs},
        a \in {<<>>} \cup {"/w/a.yml" :> d : d \in ImportedDocs},
        b \in {<<>>} \cup {"/w/b.yml" :> d : d \in DeepDocs}}

ConfigPaths == {"bashly.yml", "/w/bashly.yml", "src/../bashly.yml"}

Keywords == {"import", "include"}

Workdirs == {"/w", "/w/"}

(***************************************************************************)
(* The run: build the tree, resolve the argument vector, validate.         *)
(***************************************************************************)
NilResult == [nil |-> TRUE]

\* No environment variable set, no settings file, no file on disk.
NoEnv == <<>>
NoFile == [t |-> "absent"]
NoOpts == [nil |-> TRUE]
EmptyFs == <<>>

\* The parts of the state a run of the resolver does not use.
Unused ==
    /\ osEnv = NoEnv
    /\ userFile = NoFile
    /\ loadErr = ""
    /\ options = NoOpts
    /\ fs0 = EmptyFs
    /\ fs = EmptyFs
    /\ script = ""
    /\ output = NilResult

\* A scenario configuration with every argument vector over its vocabulary.
ScenarioInit ==
    \E sc \in Scenarios :
        /\ cfg = sc[1]
        /\ st = DefaultSettings
        /\ \E k \in 0..MaxArgv : argv \in [1..k -> sc[2]]

\* Every commands structure, with and without a commands directory.
StructInit ==
    /\ cfg \in StructConfigs
    /\ st \in {DefaultSettings, DirSettings}
    /\ argv = <<>>

\* Every declaration list and alias value.
DeclInit ==
    /\ cfg \in DeclConfigs \cup AliasConfigs
    /\ st = DefaultSettings
    /\ argv = <<>>

\* Every name and filename key, under every commands directory and extension.
NameInit ==
    /\ cfg \in NameConfigs
    /\ st \in NameSettings
    /\ argv = <<>>

\* Commands named without filename keys, with and without a commands
\* directory.
PartialInit ==
    /\ cfg \in PartialConfigs
    /\ st \in {DefaultSettings, DirSettings}
    /\ argv = <<>>

Init ==
    /\ ScenarioInit \/ StructInit \/ DeclInit \/ NameInit \/ PartialInit
    /\ Unused
    /\ pc = "start"
    /\ root = NilCommand
    /\ buildErr = ""
    /\ parsed = NilParsed
    /\ parseErr = ""
    /\ result = NilResult

Build ==
    /\ pc = "start"
    /\ LET built == BuildFromConfigMap(cfg, st)
       IN  /\ root' = built.root
           /\ buildErr' = built.err
           /\ pc' = IF built.err = "" THEN "built" ELSE "failed"
    /\ UNCHANGED <<cfg, st, argv, parsed, parseErr, result,
                   osEnv, userFile, loadErr, options, fs0, fs, script, output>>

Parse ==
    /\ pc = "built"
    /\ LET res == ParseArgs(argv, root)
       IN  /\ parsed' = res.p
           /\ parseErr' = res.err
           /\ pc' = IF res.err = "" THEN "parsed" ELSE "failed"
    /\ UNCHANGED <<cfg, st, argv, root, buildErr, result,
                   osEnv, userFile, loadErr, options, fs0, fs, script, output>>

Validate ==
    /\ pc = "parsed"
    /\ result' = ValidateParsed(NodeAt(root, parsed.Command.path), parsed)
    /\ pc' = "validated"
    /\ UNCHANGED <<cfg, st, argv, root, buildErr, parsed, parseErr,
                   osEnv, userFile, loadErr, options, fs0, fs, script, output>>

Next == Build \/ Parse \/ Validate

Spec == Init /\ [][Next]_vars

(***************************************************************************)
(* The inspect command (main.go: runInspect) and the library calls on a    *)
(* built tree: DeepCommands, PrintTree, writeInspectOutput.                *)
(***************************************************************************)
InspectFormats == {"tree", "", "json", "yaml"}

InspectInit ==
    /\ cfg \in PrivateConfigs
    /\ st \in {DefaultSettings, RevealSettings}
    /\ osEnv \in {NoEnv, RevealEnv}
    /\ argv = <<>>
    /\ userFile = NoFile
    /\ loadErr = ""
    /\ options = NoOpts
    /\ fs0 = EmptyFs
    /\ fs = EmptyFs
    /\ script = ""
    /\ output = NilResult
    /\ pc = "start"
    /\ root = NilCommand
    /\ buildErr = ""
    /\ parsed = NilParsed
    /\ parseErr = ""
    /\ result = NilResult

ListCommands ==
    /\ pc = "built"
    /\ \E includeSelf \in BOOLEAN :
        /\ options' = [includeSelf |-> includeSelf]
        /\ output' = DeepCommands(root, includeSelf)
    /\ pc' = "listed"
    /\ UNCHANGED <<cfg, st, argv, root, buildErr, parsed, parseErr, result,
                   osEnv, userFile, loadErr, fs0, fs, script>>

Render ==
    /\ pc = "built"
    /\ \E showDetails \in BOOLEAN, revealPrivate \in BOOLEAN :
        /\ options' = [ShowDetails |-> showDetails, RevealPrivate |-> revealPrivate]
        /\ output' = PrintTree(root, [ShowDetails |-> showDetails,
                                      RevealPrivate |-> revealPrivate])
    /\ pc' = "printed"
    /\ UNCHANGED <<cfg, st, argv, root, buildErr, parsed, parseErr, result,
                   osEnv, userFile, loadErr, fs0, fs, script>>

Inspect ==
    /\ pc = "built"
    /\ \E format \in InspectFormats :
        /\ options' = [format |-> format]
        /\ output' = writeInspectOutput(format, root, st, osEnv)
    /\ pc' = "inspected"
    /\ UNCHANGED <<cfg, st, argv, root, buildErr, parsed, parseErr, result,
                   osEnv, userFile, loadErr, fs0, fs, script>>

InspectNext == Build \/ ListCommands \/ Render \/ Inspect

SpecInspect == InspectInit /\ [][InspectNext]_vars

(***************************************************************************)
(* Formatting a script (package generate: FormatScript).                   *)
(***************************************************************************)
ScriptChars == {" ", "a", "\n"}

Formatters == {"internal", "none", "shfmt"}

FormatInit ==
    /\ \E k \in 0..MaxScript :
          \E chars \in [1..k -> ScriptChars] : script = StringsJoin(chars, "")
    /\ cfg = EmptyMap
    /\ st = DefaultSettings
    /\ argv = <<>>
    /\ osEnv = NoEnv
    /\ userFile = NoFile
    /\ loadErr = ""
    /\ options = NoOpts
    /\ fs0 = EmptyFs
    /\ fs = EmptyFs
    /\ output = NilResult
    /\ pc = "start"
    /\ root = NilCommand
    /\ buildErr = ""
    /\ parsed = NilParsed
    /\ parseErr = ""
    /\ result = NilResult

Format ==
    /\ pc = "start"
    /\ \E formatter \in Formatters, tabIndent \in BOOLEAN :
          \E run \in ExternalOutcomes(IF tabIndent
                                      THEN ReplaceAll(script, "  ", "\t")
                                      ELSE script) :
              /\ options' = [formatter |-> formatter, tabIndent |-> tabIndent]
              /\ output' = FormatScript(script, formatter, tabIndent, run)
    /\ pc' = "formatted"
    /\ UNCHANGED <<cfg, st, argv, root, buildErr, parsed, parseErr, result,
                   osEnv, userFile, loadErr, fs0, fs, script>>

FormatNext == Format

SpecFormat == FormatInit /\ [][FormatNext]_vars

(***************************************************************************)
(* The generate command (main.go: runGenerate): build the tree, then       *)
(* EnsureCommandPartials on some starting file system.                     *)
(***************************************************************************)
GenerateInit ==
    /\ cfg \in GenerateConfigs
    /\ st \in {DefaultSettings, DirSettings}
    /\ argv = <<>>
    /\ osEnv = NoEnv
    /\ userFile = NoFile
    /\ loadErr = ""
    /\ options = NoOpts
    /\ fs0 = EmptyFs
    /\ fs = EmptyFs
    /\ script = ""
    /\ output = NilResult
    /\ pc = "start"
    /\ root = NilCommand
    /\ buildErr = ""
    /\ parsed = NilParsed
    /\ parseErr = ""
    /\ result = NilResult

Generate ==
    /\ pc = "built"
    /\ \E start \in StartFileSystems(root, st), force \in BOOLEAN, dryRun \in BOOLEAN :
          LET o == [Workdir |-> Workdir, Force |-> force, DryRun |-> dryRun]
              done == EnsureCommandPartials(root, st, o, start)
          IN  /\ options' = o
              /\ fs0' = start
              /\ fs' = done.fs
              /\ output' = [Created |-> done.Created, Skipped |-> done.Skipped,
                            err |-> done.err, writes |-> done.writes]
    /\ pc' = "generated"
    /\ UNCHANGED <<cfg, st, argv, root, buildErr, parsed, parseErr, result,
                   osEnv, userFile, loadErr, script>>

GenerateNext == Build \/ Generate

SpecGenerate == GenerateInit /\ [][GenerateNext]_vars

(***************************************************************************)
(* Resolving the settings (internal/settings: Load).                       *)
(***************************************************************************)
NotLoaded == [nil |-> TRUE]

SettingsInit ==
    /\ \/ \E key \in SettingKeys :
             /\ userFile \in SettingsFiles(key)
             /\ osEnv \in Environments(key)
       \/ /\ userFile \in {NoFile, [t |-> "unreadable"], List(<<>>), Nil}
          /\ \E key \in SettingKeys : osEnv \in Environments(key)
    /\ st = NotLoaded
    /\ loadErr = ""
    /\ cfg = EmptyMap
    /\ argv = <<>>
    /\ options = NoOpts
    /\ fs0 = EmptyFs
    /\ fs = EmptyFs
    /\ script = ""
    /\ output = NilResult
    /\ pc = "start"
    /\ root = NilCommand
    /\ buildErr = ""
    /\ parsed = NilParsed
    /\ parseErr = ""
    /\ result = NilResult

LoadSettings ==
    /\ pc = "start"
    /\ LET loaded == Load(userFile, osEnv)
       IN  /\ st' = loaded.st
           /\ loadErr' = loaded.err
           /\ pc' = IF loaded.err = "" THEN "loaded" ELSE "failed"
    /\ UNCHANGED <<cfg, argv, root, buildErr, parsed, parseErr, result,
                   osEnv, userFile, options, fs0, fs, script, output>>

SettingsNext == LoadSettings

SpecSettings == SettingsInit /\ [][SettingsNext]_vars

(***************************************************************************)
(* Loading the configuration (main.go: runInspect, runGenerate call        *)
(* bashlyconfig.LoadComposedConfig).                                       *)
(***************************************************************************)
ComposeInit ==
    /\ fs0 \in ComposeFileSystems
    /\ \E path \in ConfigPaths, keyword \in Keywords, workdir \in Workdirs :
          options = [path |-> path, keyword |-> keyword, workdir |-> workdir]
    /\ cfg = EmptyMap
    /\ st = DefaultSettings
    /\ argv = <<>>
    /\ osEnv = NoEnv
    /\ userFile = NoFile
    /\ loadErr = ""
    /\ fs = EmptyFs
    /\ script = ""
    /\ output = NilResult
    /\ pc = "start"
    /\ root = NilCommand
    /\ buildErr = ""
    /\ parsed = NilParsed
    /\ parseErr = ""
    /\ result = NilResult

\* One run of LoadComposedConfig: the result of one of the orders in which
\* the maps can be visited.
Compose ==
    /\ pc = "start"
    /\ \E composed \in LoadComposedConfig(options.path, options.keyword,
                                          options.workdir, fs0) :
          /\ output' = composed
          /\ cfg' = IF composed.err = "" THEN composed.v.m ELSE cfg
          /\ loadErr' = composed.err
          /\ pc' = IF composed.err = "" THEN "composed" ELSE "failed"
    /\ UNCHANGED <<st, argv, root, buildErr, parsed, parseErr, result,
                   osEnv, userFile, options, fs0, fs, script>>

ComposeNext == Compose

SpecCompose == ComposeInit /\ [][ComposeNext]_vars

(***************************************************************************)
(* Properties.                                                             *)
(***************************************************************************)
Resolved == pc \in {"parsed", "validated"}

ResolvedNode == NodeAt(root, parsed.Command.path)

\* The alias rule as documented: a trailing '*' makes the alias a prefix.
DocumentedAliasMatch(alias, token) ==
    IF HasSuffix(alias, "*")
    THEN HasPrefix(token, TrimSuffix(alias, "*"))
    ELSE alias = token

DocumentedChildMatch(child, token) ==
    \/ child.Name = token
    \/ \E k \in 1..Len(child.Alias) : DocumentedAliasMatch(child.Alias[k], token)

\* C1: the first token resolves to the first child of the root whose name it
\* equals or one of whose aliases it matches, an alias ending in '*' matching
\* every token that starts with its literal part and any other alias matching
\* by equality only; when no child matches that way the root is kept.
C1_WildcardAliasResolves ==
    (Resolved /\ ~parsed.HelpAsked /\ Len(argv) > 0) =>
        LET hits == {i \in 1..Len(root.Commands) :
                        DocumentedChildMatch(root.Commands[i], argv[1])}
        IN  /\ hits # {} => /\ Len(parsed.Command.path) >= 1
                            /\ parsed.Command.path[1] = Min(hits)
            /\ hits = {} => parsed.Command.path = <<>>

\* C2: the Quick Start configuration with argv ["file.txt", "--verbose"]
\* resolves to the root with positional ["file.txt"] and flags
\* {"--verbose": "true"}, and validates with Valid = true and exit code 0.
C2_QuickStartValidates ==
    (pc = "validated" /\ cfg = MyCliConfig /\ argv = <<"file.txt", "--verbose">>) =>
        /\ parsed.Command = Ptr(<<>>)
        /\ parsed.Positional = <<"file.txt">>
        /\ DOMAIN parsed.Flags = {"--verbose"}
        /\ parsed.Flags["--verbose"] = "true"
        /\ result.Valid
        /\ result.ExitCode = 0

\* C3: every node of a built tree, the root included, has a non-empty alias
\* sequence whose first element is the node's name.
C3_AliasStartsWithName ==
    (pc = "built") =>
        \A path \in PathsOf(root) :
            /\ Len(NodeAt(root, path).Alias) > 0
            /\ NodeAt(root, path).Alias[1] = NodeAt(root, path).Name

IsHelpToken(token) == token = "--help" \/ token = "-h"

\* C4: helpAsked is true exactly when "--help" or "-h" occurs at some position
\* of argv, and then the command is the root, there is no error, and flags,
\* positional and remaining are empty.
C4_HelpShortCircuit ==
    Resolved =>
        /\ parsed.HelpAsked <=> (\E i \in 1..Len(argv) : IsHelpToken(argv[i]))
        /\ parsed.HelpAsked =>
                /\ parsed.Command = Ptr(<<>>)
                /\ parseErr = ""
                /\ DOMAIN parsed.Flags = {}
                /\ parsed.Positional = <<>>
                /\ parsed.Remaining = <<>>

\* A help token that follows a token naming a sub-command.
C4_Witness ==
    /\ pc = "parsed"
    /\ parsed.HelpAsked
    /\ Len(argv) >= 2
    /\ ~IsHelpToken(argv[1])
    /\ findChild(root, argv[1]) # 0
    /\ IsHelpToken(argv[2])

\* The three checks of the validator, stated on the declarations.
TypedValue(p, flag) ==
    LET long == IF flag.Long \in DOMAIN p.Flags THEN p.Flags[flag.Long] ELSE ""
        short == IF flag.Short \in DOMAIN p.Flags THEN p.Flags[flag.Short] ELSE ""
    IN  IF long # "" THEN long ELSE short

ArgMissing(cmd, p) ==
    \E i \in 1..Len(cmd.Args) :
        /\ cmd.Args[i].Required
        /\ \A j \in 1..Len(p.Positional) : p.Positional[j] # cmd.Args[i].Name

FlagMissing(cmd, p) ==
    \E i \in 1..Len(cmd.Flags) :
        cmd.Flags[i].Required /\ TypedValue(p, cmd.Flags[i]) = ""

ValueRejected(cmd, p) ==
    \E i \in 1..Len(cmd.Flags) :
        /\ TypedValue(p, cmd.Flags[i]) # ""
        /\ Len(cmd.Flags[i].Allowed) > 0
        /\ \A k \in 1..Len(cmd.Flags[i].Allowed) :
                cmd.Flags[i].Allowed[k] # TypedValue(p, cmd.Flags[i])

\* C5: the validator reports the first failing check in the order required
\* arguments, required flags, allowed values; every failure has Valid = false
\* and exit code 2; the result is {true, "", 0} exactly when no check fails;
\* for the command requiring src and --out in [a, b] the three messages are
\* the documented ones.
C5_ValidationOrder ==
    (pc = "validated") =>
        LET cmd == ResolvedNode
            p == parsed
        IN  /\ ArgMissing(cmd, p) =>
                    HasPrefix(result.ErrorMsg, "missing required argument: ")
            /\ (~ArgMissing(cmd, p) /\ FlagMissing(cmd, p)) =>
                    HasPrefix(result.ErrorMsg, "missing required flag: ")
            /\ (~ArgMissing(cmd, p) /\ ~FlagMissing(cmd, p) /\ ValueRejected(cmd, p)) =>
                    HasPrefix(result.ErrorMsg, "invalid value for ")
            /\ result.Valid <=>
                    (~ArgMissing(cmd, p) /\ ~FlagMissing(cmd, p) /\ ~ValueRejected(cmd, p))
            /\ ~result.Valid => (result.ExitCode = 2 /\ result.ErrorMsg # "")
            /\ result.Valid => (result.ExitCode = 0 /\ result.ErrorMsg = "")
            /\ (cfg = CopyConfig) =>
                /\ (p.Positional = <<>> /\ DOMAIN p.Flags = {}) =>
                        result.ErrorMsg = "missing required argument: src"
                /\ (contains(p.Positional, "src") /\ FlagValue(p.Flags, "--out") = "") =>
                        result.ErrorMsg = "missing required flag: --out"
                /\ (contains(p.Positional, "src") /\ FlagValue(p.Flags, "--out") = "c") =>
                        result.ErrorMsg = "invalid value for --out: c"

\* A missing argument is reported although the typed flag value is not allowed.
C5_Witness ==
    /\ pc = "validated"
    /\ cfg = CopyConfig
    /\ ArgMissing(ResolvedNode, parsed)
    /\ ValueRejected(ResolvedNode, parsed)
    /\ result.ErrorMsg = "missing required argument: src"

\* C6: once the required arguments are present, a required flag passes iff a
\* non-empty value is held under its long key or under its short key; the
\* first failing flag is reported under its long name when it has one and
\* under its short name otherwise.
C6_RequiredFlagFallback ==
    (pc = "validated" /\ ~ArgMissing(ResolvedNode, parsed)) =>
        LET cmd == ResolvedNode
            failing == {i \in 1..Len(cmd.Flags) :
                            /\ cmd.Flags[i].Required
                            /\ FlagValue(parsed.Flags, cmd.Flags[i].Long) = ""
                            /\ FlagValue(parsed.Flags, cmd.Flags[i].Short) = ""}
        IN  /\ failing = {} => ~HasPrefix(result.ErrorMsg, "missing required flag: ")
            /\ failing # {} =>
                    result.ErrorMsg = "missing required flag: "
                        \o (IF cmd.Flags[Min(failing)].Long # ""
                            THEN cmd.Flags[Min(failing)].Long
                            ELSE cmd.Flags[Min(failing)].Short)

\* Only the short form of --to/-t is typed: that flag passes, and the flag
\* declared with a short form only is reported under it.
C6_Witness ==
    /\ pc = "validated"
    /\ cfg = SendConfig
    /\ FlagValue(parsed.Flags, "-t") # ""
    /\ "--to" \notin DOMAIN parsed.Flags
    /\ result.ErrorMsg = "missing required flag: -k"

IsLong(token) == HasPrefix(token, "--")

HasEquals(token) == \E k \in 1..Len(token) : CharAt(token, k) = "="

\* The flag key a long token writes: the part before its first '='.
LongKey(token) ==
    IF HasEquals(token)
    THEN SubSeq(token, 1,
                (CHOOSE k \in 1..Len(token) :
                    /\ CharAt(token, k) = "="
                    /\ \A j \in 1..(k - 1) : CharAt(token, j) # "=") - 1)
    ELSE token

IsCluster(token) == HasPrefix(token, "-") /\ ~IsLong(token) /\ Len(token) > 2

ClusterKeys(token) == {"-" \o CharAt(token, k) : k \in 2..Len(token)}

\* Token writes key as a flag when it is tokenized as a flag.
Writes(token, key) ==
    \/ IsLong(token) /\ LongKey(token) = key
    \/ IsCluster(token) /\ key \in ClusterKeys(token)
    \/ ~IsLong(token) /\ Len(token) = 2 /\ HasPrefix(token, "-") /\ token = key

NoOtherWriter(rem, i, key) ==
    \A j \in 1..Len(rem) : j # i => ~Writes(rem[j], key)

\* C7: a token of remaining that starts with "--" and holds '=' is split at
\* its first '=' into key and value; without '=' its value is the next token
\* iff that exists and does not start with '-', else "true", and the next
\* token is then tokenized on its own (each key being written by one token).
C7_LongFlagTokenization ==
    (Resolved /\ ~parsed.HelpAsked) =>
        LET rem == parsed.Remaining
            flags == parsed.Flags
        IN  /\ \A i \in 1..Len(rem) :
                (IsLong(rem[i]) /\ NoOtherWriter(rem, i, LongKey(rem[i]))) =>
                    /\ LongKey(rem[i]) \in DOMAIN flags
                    /\ flags[LongKey(rem[i])] =
                        IF HasEquals(rem[i])
                        THEN SubSeq(rem[i], Len(LongKey(rem[i])) + 2, Len(rem[i]))
                        ELSE IF i < Len(rem) /\ ~HasPrefix(rem[i + 1], "-")
                        THEN rem[i + 1]
                        ELSE "true"
            /\ rem = <<"--name=foo">> =>
                    (DOMAIN flags = {"--name"} /\ flags["--name"] = "foo")
            /\ rem = <<"--name", "foo">> =>
                    /\ DOMAIN flags = {"--name"}
                    /\ flags["--name"] = "foo"
                    /\ parsed.Positional = <<>>
            /\ rem = <<"--name", "--other">> =>
                    /\ DOMAIN flags = {"--name", "--other"}
                    /\ flags["--name"] = "true"
                    /\ flags["--other"] = "true"

\* A long flag followed by a flag-like token, which then takes its own value.
C7_Witness ==
    /\ pc = "parsed"
    /\ parsed.Remaining = <<"--name", "--other", "foo">>
    /\ parsed.Flags["--name"] = "true"
    /\ parsed.Flags["--other"] = "foo"

\* C8: a token of remaining that starts with a single '-' and is longer than
\* 2 characters sets one flag per character to "true" and never takes the
\* following token as a value: alone it yields exactly those flags and no
\* positional, and a following non-flag token becomes a positional.
C8_CompactCluster ==
    (Resolved /\ ~parsed.HelpAsked) =>
        LET rem == parsed.Remaining
            flags == parsed.Flags
        IN  /\ \A i \in 1..Len(rem) :
                IsCluster(rem[i]) =>
                    /\ ClusterKeys(rem[i]) \subseteq DOMAIN flags
                    /\ \A key \in ClusterKeys(rem[i]) :
                            NoOtherWriter(rem, i, key) => flags[key] = "true"
                    /\ (i < Len(rem) /\ ~HasPrefix(rem[i + 1], "-")) =>
                            contains(parsed.Positional, rem[i + 1])
            /\ (Len(rem) = 1 /\ IsCluster(rem[1])) =>
                    /\ DOMAIN flags = ClusterKeys(rem[1])
                    /\ parsed.Positional = <<>>
            /\ (Len(rem) = 2 /\ IsCluster(rem[1]) /\ ~HasPrefix(rem[2], "-")) =>
                    /\ DOMAIN flags = ClusterKeys(rem[1])
                    /\ \A key \in DOMAIN flags : flags[key] = "true"
                    /\ parsed.Positional = <<rem[2]>>
            /\ rem = <<"-abc">> => DOMAIN flags = {"-a", "-b", "-c"}

\* The cluster "-abc" followed by the non-flag token "x".
C8_Witness ==
    /\ pc = "parsed"
    /\ parsed.Remaining = <<"-abc", "x">>
    /\ parsed.Positional = <<"x">>

\* A name that buildChildren accepts: a non-empty string.
IsName(v) == v.t = "string" /\ v.s # ""

\* Some commands value, at any depth, is not a list, or holds an entry that
\* is not a mapping or has no non-empty string name.
RECURSIVE StructuralError(_)
StructuralError(m) ==
    /\ "commands" \in DOMAIN m
    /\ \/ m["commands"].t # "list"
       \/ \E i \in 1..Len(m["commands"].l) :
            \/ m["commands"].l[i].t # "map"
            \/ ~IsName(Get(m["commands"].l[i].m, "name"))
            \/ StructuralError(m["commands"].l[i].m)

\* C9: a configuration with a structural error at any depth makes the build
\* return an error and no tree.
C9_StructuralErrorAborts ==
    (pc # "start" /\ StructuralError(cfg)) =>
        /\ pc = "failed"
        /\ buildErr # ""
        /\ root = NilCommand

\* The fault is the second grandchild entry, after a well-formed sibling and
\* below a well-formed parent.
C9_Witness ==
    /\ pc = "failed"
    /\ "commands" \in DOMAIN cfg
    /\ cfg["commands"].t = "list"
    /\ Len(cfg["commands"].l) = 1
    /\ cfg["commands"].l[1].t = "map"
    /\ IsName(Get(cfg["commands"].l[1].m, "name"))
    /\ "commands" \in DOMAIN cfg["commands"].l[1].m
    /\ cfg["commands"].l[1].m["commands"].t = "list"
    /\ Len(cfg["commands"].l[1].m["commands"].l) = 2
    /\ cfg["commands"].l[1].m["commands"].l[1] = Map([name |-> Str("a")])
    /\ cfg["commands"].l[1].m["commands"].l[2].t # "map"
    /\ root = NilCommand

\* The configuration mapping a node of a built tree was made from.
RECURSIVE ConfigAt(_, _)
ConfigAt(m, path) ==
    IF Len(path) = 0 THEN m
    ELSE ConfigAt(m["commands"].l[path[1]].m, Tail(path))

IsNamedMapping(e) == e.t = "map" /\ IsName(Get(e.m, "name"))

IsMapping(e) == e.t = "map"

KeptNamed(v) == IF v.t = "list" THEN SelectSeq(v.l, IsNamedMapping) ELSE <<>>

KeptMappings(v) == IF v.t = "list" THEN SelectSeq(v.l, IsMapping) ELSE <<>>

\* C10: in a built tree every node holds, in declared order, exactly the
\* args and environment_variables entries that are mappings with a non-empty
\* name and exactly the flags entries that are mappings; a non-list value
\* gives an empty list; and only a structural error makes the build fail.
C10_LenientDeclarations ==
    /\ (pc # "start" /\ ~StructuralError(cfg)) => (buildErr = "" /\ root # NilCommand)
    /\ (pc = "built") =>
        \A path \in PathsOf(root) :
            LET node == NodeAt(root, path)
                opts == ConfigAt(cfg, path)
                a == KeptNamed(Get(opts, "args"))
                e == KeptNamed(Get(opts, "environment_variables"))
                f == KeptMappings(Get(opts, "flags"))
            IN  /\ Len(node.Args) = Len(a)
                /\ \A i \in 1..Len(a) : node.Args[i].Name = a[i].m["name"].s
                /\ Len(node.EnvVars) = Len(e)
                /\ \A i \in 1..Len(e) : node.EnvVars[i].Name = e[i].m["name"].s
                /\ Len(node.Flags) = Len(f)
                /\ \A i \in 1..Len(f) :
                        /\ node.Flags[i].Long = asString(Get(f[i].m, "long"))
                        /\ node.Flags[i].Short = asString(Get(f[i].m, "short"))

\* A child whose args, flags and environment_variables lists each lose their
\* first entry and keep their second.
C10_Witness ==
    /\ pc = "built"
    /\ Len(root.Commands) = 1
    /\ LET opts == ConfigAt(cfg, <<1>>)
           node == root.Commands[1]
       IN  /\ \A key \in {"args", "flags", "environment_variables"} :
                /\ Get(opts, key).t = "list"
                /\ Len(Get(opts, key).l) = 2
                /\ Get(opts, key).l[1].t # "map"
           /\ Len(node.Args) = 1
           /\ Len(node.Flags) = 1
           /\ Len(node.EnvVars) = 1

\* The paths of the nodes a configuration declares: the root and, below a
\* declared node, the entries of its commands list.
RECURSIVE DeclaredPaths(_)
DeclaredPaths(m) ==
    {<<>>} \cup
    (IF "commands" \in DOMAIN m /\ m["commands"].t = "list"
     THEN UNION {{<<i>> \o p : p \in DeclaredPaths(m["commands"].l[i].m)}
                    : i \in 1..Len(m["commands"].l)}
     ELSE {})

\* p comes before q in pre-order: p is an ancestor of q, or at the first
\* level where they part p goes through the earlier sibling.
PreOrderBefore(p, q) ==
    \/ Len(p) < Len(q) /\ SubSeq(q, 1, Len(p)) = p
    \/ \E i \in 1..Min({Len(p), Len(q)}) :
          /\ SubSeq(p, 1, i - 1) = SubSeq(q, 1, i - 1)
          /\ p[i] < q[i]

\* C11: DeepCommands(root, true) lists every declared node exactly once, in
\* pre-order (a parent before its descendants, siblings in declaration
\* order) with the root first; DeepCommands(root, false) is the same
\* listing without the root.
C11_DeepCommandsPreOrder ==
    pc = "listed" =>
        LET expected == IF options.includeSelf THEN DeclaredPaths(cfg)
                        ELSE DeclaredPaths(cfg) \ {<<>>}
        IN  /\ \A i \in 1..Len(output) : ~output[i].nil
            /\ {output[i].path : i \in 1..Len(output)} = expected
            /\ Len(output) = Cardinality(expected)
            /\ \A i, j \in 1..Len(output) :
                  i < j => PreOrderBefore(output[i].path, output[j].path)
            /\ options.includeSelf => output[1].path = <<>>

\* A root with two children, the first of them with a child of its own,
\* listed with the root.
C11_Witness ==
    /\ pc = "listed"
    /\ options.includeSelf
    /\ [i \in 1..Len(output) |-> output[i].path] = << <<>>, <<1>>, <<1, 1>>, <<2>> >>

\* The command objects of a JSON document of writeInspectOutput.
RECURSIVE JsonCommands(_)
JsonCommands(doc) ==
    {doc} \cup
    (IF "commands" \in DOMAIN doc
     THEN UNION {JsonCommands(doc["commands"][i]) : i \in 1..Len(doc["commands"])}
     ELSE {})

\* C14: when private items are not revealed, the JSON output of inspect
\* holds no command whose private field is true (and so no node of the
\* subtree of such a command).
C14_JsonHidesPrivate ==
    (pc = "inspected" /\ options.format = "json" /\ ~RevealPrivate(st, osEnv)) =>
        \A o \in JsonCommands(output.json) : ~o["private"]

\* Some proper or improper ancestor of the node at path p is private.
UnderPrivate(tree, p) ==
    \E k \in 0..Len(p) : NodeAt(tree, SubSeq(p, 1, k)).Private

\* C15: with RevealPrivate false PrintTree writes no line for a private
\* node nor for a descendant of one; with RevealPrivate true it writes
\* exactly one line for every node of the tree.
C15_PrintTreePrivate ==
    pc = "printed" =>
        IF options.RevealPrivate
        THEN /\ \A p \in PathsOf(root) :
                  Cardinality({i \in 1..Len(output) : output[i].node = p}) = 1
             /\ Len(output) = Cardinality(PathsOf(root))
        ELSE \A i \in 1..Len(output) : ~UnderPrivate(root, output[i].node)

\* Private items hidden, a private command with a public child next to a
\* public command: only the root and the public command are printed.
C15_Witness ==
    /\ pc = "printed"
    /\ ~options.RevealPrivate
    /\ Len(root.Commands) = 2
    /\ root.Commands[1].Private
    /\ Len(root.Commands[1].Commands) = 1
    /\ ~root.Commands[1].Commands[1].Private
    /\ ~root.Commands[2].Private
    /\ [i \in 1..Len(output) |-> output[i].node] = << <<>>, <<2>> >>

\* The names of the ancestors of the node at path p, the root's first.
AncestorNames(tree, p) ==
    [k \in 1..Len(p) |-> NodeAt(tree, SubSeq(p, 1, k - 1)).Name]

\* C12: in every built tree the root's action name is the literal "root";
\* a child of the root has its own name as action name; a deeper node has
\* the names of its ancestors below the root followed by its own name,
\* joined by single spaces; the full name is the names of all ancestors,
\* the root included, followed by the node's name, joined by single spaces.
C12_Identity ==
    root # NilCommand =>
        \A p \in PathsOf(root) :
            LET c == NodeAt(root, p)
                chain == AncestorNames(root, p)
            IN  /\ c.Parents = chain
                /\ Len(p) = 0 => c.ActionName = "root"
                /\ Len(p) = 1 => c.ActionName = c.Name
                /\ Len(p) >= 2 =>
                      c.ActionName = StringsJoin(Tail(chain) \o <<c.Name>>, " ")
                /\ c.FullName = StringsJoin(chain \o <<c.Name>>, " ")

\* A grandchild b of the child a of the root app.
C12_Witness ==
    /\ root # NilCommand
    /\ \E p \in PathsOf(root) :
          /\ Len(p) = 2
          /\ NodeAt(root, p).ActionName = "a b"
          /\ NodeAt(root, p).FullName = "app a b"

\* The extension of the derived filenames.
ExtOf(settings) ==
    IF settings.PartialsExtension = "" THEN "sh" ELSE settings.PartialsExtension

\* The explicit filename of a declared entry, "" when it has none.
ExplicitFilename(e) ==
    IF Get(e, "filename").t = "string" THEN Get(e, "filename").s ELSE ""

\* The filename of a non-root node as the specification words it.
FilenameAsWorded(c, e, settings) ==
    IF ExplicitFilename(e) # "" THEN ExplicitFilename(e)
    ELSE IF settings.CommandsDir # ""
    THEN settings.CommandsDir \o "/" \o ReplaceAll(c.ActionName, " ", "/")
            \o "." \o ExtOf(settings)
    ELSE ToLower(ReplaceAll(ReplaceAll(c.ActionName, " ", "_"), "-", "_"))
            \o "_command." \o ExtOf(settings)

\* C13 as worded: an explicit non-empty filename is used verbatim; else
\* with a commands directory the filename is the directory, a separator,
\* the action name with spaces turned into separators, a dot and the
\* extension; else it is the action name lower-cased with spaces and
\* hyphens turned into underscores, followed by "_command." and the
\* extension; the extension is "sh" when the settings leave it empty.
C13_FilenameAsWorded ==
    root # NilCommand =>
        \A p \in PathsOf(root) \ {<<>>} :
            NodeAt(root, p).Filename
                = FilenameAsWorded(NodeAt(root, p), ConfigAt(cfg, p), st)

\* White space other than the space character.
IsOtherSpace(ch) == ch \in {"\t", "\n", "\r"}

RECURSIVE StripOtherSpace(_)
StripOtherSpace(s) ==
    IF Len(s) > 0 /\ IsOtherSpace(CharAt(s, 1)) THEN StripOtherSpace(Tail(s))
    ELSE IF Len(s) > 0 /\ IsOtherSpace(CharAt(s, Len(s)))
    THEN StripOtherSpace(SubSeq(s, 1, Len(s) - 1))
    ELSE s

\* Spaces, hyphens and slashes to underscores, letters to lower case.
RECURSIVE Flatten(_)
Flatten(s) ==
    IF Len(s) = 0 THEN ""
    ELSE (IF CharAt(s, 1) \in {" ", "-", "/"} THEN "_" ELSE ToLower(CharAt(s, 1)))
            \o Flatten(Tail(s))

FilenameAmended(c, e, settings) ==
    IF ExplicitFilename(e) # "" THEN ExplicitFilename(e)
    ELSE IF settings.CommandsDir # ""
    THEN FilepathClean(settings.CommandsDir \o "/"
                       \o ReplaceAll(c.ActionName, " ", "/")
                       \o "." \o ExtOf(settings))
    ELSE Flatten(StripOtherSpace(c.ActionName)) \o "_command." \o ExtOf(settings)

\* C13, amended: an explicit non-empty filename is used verbatim; else with
\* a commands directory the filename is the cleaned path made of the
\* directory, a separator, the action name with spaces turned into
\* separators, a dot and the extension; else it is the action name without
\* leading and trailing tabs and line breaks, lower-cased, with spaces,
\* hyphens and slashes turned into underscores, followed by "_command."
\* and the extension; the extension is "sh" when the settings leave it
\* empty.
C13_FilenameResolution ==
    root # NilCommand =>
        \A p \in PathsOf(root) \ {<<>>} :
            NodeAt(root, p).Filename
                = FilenameAmended(NodeAt(root, p), ConfigAt(cfg, p), st)

\* The command a/b below "my cmd", without a commands directory and with
\* the default extension: the slash of its name becomes an underscore.
C13_Witness ==
    /\ root # NilCommand
    /\ st.CommandsDir = ""
    /\ st.PartialsExtension = ""
    /\ \E p \in PathsOf(root) :
          /\ Len(p) = 2
          /\ NodeAt(root, p).ActionName = "my cmd a/b"
          /\ ExplicitFilename(ConfigAt(cfg, p)) = ""
          /\ NodeAt(root, p).Filename = "my_cmd_a_b_command.sh"

\* C16: in every tree BuildFromConfigMap returns, no two children of the
\* same parent have the same name.
C16_SiblingNamesUnique ==
    root # NilCommand =>
        \A p \in PathsOf(root) :
            \A i, j \in 1..Len(NodeAt(root, p).Commands) :
                i # j => NodeAt(root, p).Commands[i].Name
                            # NodeAt(root, p).Commands[j].Name

RECURSIVE TabLeading(_)
TabLeading(line) ==
    IF HasPrefix(line, "  ") THEN "\t" \o TabLeading(SubSeq(line, 3, Len(line)))
    ELSE line

TabLeadingLines(content) ==
    LET lines == SplitLines(content)
    IN  StringsJoin([i \in 1..Len(lines) |-> TabLeading(lines[i])], "\n")

\* C17: with tabIndent = true FormatScript turns the pairs of spaces at the
\* start of a line into tabs and leaves every pair of spaces after the
\* first non-space character of a line as it was (formatter "none", which
\* changes nothing else).
C17_TabIndentLeadingOnly ==
    (pc = "formatted" /\ options.tabIndent /\ options.formatter = "none") =>
        output.Formatted = TabLeadingLines(script)

\* The path exists as a file with some content.
IsFile(files, p) == p \in DOMAIN files /\ ~files[p].dir

\* Nothing but the recorded writes and new directories came into the file
\* system, and nothing left it.
OnlyRecordedChanges ==
    /\ DOMAIN fs0 \subseteq DOMAIN fs
    /\ \A p \in DOMAIN fs :
          (p \notin DOMAIN fs0 \/ fs[p] # fs0[p]) =>
              \/ p \notin DOMAIN fs0 /\ fs[p].dir
              \/ \E i \in 1..Len(output.writes) : output.writes[i].path = p

\* Every write was allowed by the options.
WritesAllowed ==
    \A i \in 1..Len(output.writes) :
        /\ ~options.DryRun
        /\ options.Force \/ ~output.writes[i].existed

\* The partials of the tree that existed at the start.
ExistingPartials == PartialPaths(root, st) \cap DOMAIN fs0

InSeq(s, x) == \E i \in 1..Len(s) : s[i] = x

VarCounts(key) ==
    /\ VarOf(key) \in DOMAIN osEnv
    /\ osEnv[VarOf(key)] # ""
    /\ key = "tab_indent" =>
          osEnv[VarOf(key)] \in {"0", "1", "true", "false", "yes", "no"}

\* The items of a comma-separated list, without the white space around them.
RECURSIVE CommaItems(_)
CommaItems(s) ==
    IF IndexOf(s, ",") = 0 THEN <<TrimSpace(s)>>
    ELSE <<TrimSpace(SubSeq(s, 1, IndexOf(s, ",") - 1))>>
            \o CommaItems(SubSeq(s, IndexOf(s, ",") + 1, Len(s)))

\* The value of a setting that its variable stands for.
VarMeaning(key) ==
    LET v == osEnv[VarOf(key)]
    IN  IF key = "tab_indent" THEN v \in {"1", "true", "yes"}
        ELSE IF key = "extra_lib_dirs" THEN CommaItems(v)
        ELSE IF key = "config_path" THEN ReplaceAll(v, "%{source_dir}", st.SourceDir)
        ELSE v

\* The environment name that picks the overrides: BASHLY_ENV when it is set
\* to a non-empty value, else the env of the file, else the default; white
\* space around the name does not count.
OverrideEnv ==
    TrimSpace(
        IF "BASHLY_ENV" \in DOMAIN osEnv /\ osEnv["BASHLY_ENV"] # ""
        THEN osEnv["BASHLY_ENV"]
        ELSE IF "env" \in DOMAIN userFile.m /\ userFile.m["env"].t = "string"
                /\ userFile.m["env"].s # ""
        THEN userFile.m["env"].s
        ELSE "development")

\* The value of a setting that a value of the file stands for.
FileMeaning(key, v) ==
    IF key = "tab_indent" THEN v.b
    ELSE IF key = "extra_lib_dirs" THEN stringItems(v.l)
    ELSE IF key = "config_path" THEN ReplaceAll(v.s, "%{source_dir}", st.SourceDir)
    ELSE v.s

\* C19: for every setting whose BASHLY_ variable is set to a value that
\* counts, Load returns the value of the variable whatever the file holds
\* under the plain key and under the per-environment keys (config_path up
\* to the interpolation of %{source_dir}); and the per-environment keys
\* that are looked at are those of BASHLY_ENV when it is set, else those of
\* the env of the file: without the variable of the setting, the override
\* of that environment is returned, and the overrides of the other
\* environments are not.
C19_EnvIsFinalAuthority ==
    pc = "loaded" =>
        /\ \A key \in SettingKeys \cup {"env"} :
              VarCounts(key) => st[FieldOf(key)] = VarMeaning(key)
        /\ userFile.t = "map" =>
              \A key \in SettingKeys :
                  VarOf(key) \notin DOMAIN osEnv =>
                      /\ (key \o "_" \o OverrideEnv) \in DOMAIN userFile.m =>
                            st[FieldOf(key)]
                                = FileMeaning(key, userFile.m[key \o "_" \o OverrideEnv])
                      /\ \A other \in EnvNames \ {OverrideEnv} :
                            (/\ (key \o "_" \o other) \in DOMAIN userFile.m
                             /\ (key \o "_" \o OverrideEnv) \notin DOMAIN userFile.m
                             /\ key # "tab_indent") =>
                                st[FieldOf(key)]
                                    # FileMeaning(key, userFile.m[key \o "_" \o other])

\* BASHLY_SOURCE_DIR is set while the file holds a plain source_dir and an
\* override of it for the environment BASHLY_ENV names.
C19_Witness ==
    /\ pc = "loaded"
    /\ userFile.t = "map"
    /\ "BASHLY_ENV" \in DOMAIN osEnv
    /\ osEnv["BASHLY_ENV"] = "production"
    /\ "BASHLY_SOURCE_DIR" \in DOMAIN osEnv
    /\ osEnv["BASHLY_SOURCE_DIR"] = "e, f"
    /\ "source_dir" \in DOMAIN userFile.m
    /\ userFile.m["source_dir"] = Str("plain")
    /\ "source_dir_production" \in DOMAIN userFile.m
    /\ st.SourceDir = "e, f"

\* A token that is not a flag: it does not start with '-', or it is "-".
NonFlag(token) == ~HasPrefix(token, "-") \/ token = "-"

\* A flag token that takes the following token as its value when it can: a
\* long flag without '=', or a token of exactly two characters after '-'.
TakesValue(token) ==
    \/ HasPrefix(token, "--") /\ ~StringsContains(token, "=")
    \/ HasPrefix(token, "-") /\ Len(token) = 2

\* The non-flag token at position i directly follows a flag that takes it.
TakenAsValue(rem, i) ==
    i > 1 /\ ~HasPrefix(rem[i], "-") /\ TakesValue(rem[i - 1])

\* The tokens of rem at the positions of idx, in the order of rem.
TokensAt(rem, idx) ==
    [k \in 1..Cardinality(idx) |->
        rem[CHOOSE i \in idx : Cardinality({j \in idx : j <= i}) = k]]

\* C21 as worded: positional holds every token of remaining that does not
\* start with '-' and every lone "-", in encounter order, none missing.
C21_PositionalAllNonFlag ==
    (Resolved /\ ~parsed.HelpAsked) =>
        parsed.Positional = SelectSeq(parsed.Remaining, NonFlag)

\* C21: positional is the sequence, in encounter order, of the non-flag
\* tokens of remaining (those not starting with '-', and the lone "-") that
\* do not directly follow a flag taking its value from the next token; each
\* such token is in positional once and no other token is.
C21_PositionalCollection ==
    (Resolved /\ ~parsed.HelpAsked) =>
        LET rem == parsed.Remaining
            kept == {i \in 1..Len(rem) : NonFlag(rem[i]) /\ ~TakenAsValue(rem, i)}
        IN  parsed.Positional = TokensAt(rem, kept)

\* A value taken by a flag, then the lone "-" and a plain token.
C21_Witness ==
    /\ pc = "parsed"
    /\ parsed.Remaining = <<"--name", "foo", "-">>
    /\ parsed.Positional = <<"-">>
    /\ parsed.Flags["--name"] = "foo"

\* The children of node that carry the name token, by index.
NamedChildren(node, token) ==
    {j \in 1..Len(node.Commands) : node.Commands[j].Name = token}

\* The child at index j lists token among its declared aliases (the entries
\* of Alias after the name itself).
ListsAlias(child, token) ==
    \E a \in 2..Len(child.Alias) : child.Alias[a] = token

\* An entry of the child's Alias, its name included, starts with '*'.
HasStarAlias(child) ==
    \E a \in 1..Len(child.Alias) : HasPrefix(child.Alias[a], "*")

\* The steps of the walk: the node the walk stands on before token i and
\* the child it takes (0 when it stops there).
StepNode(i) == NodeAt(root, SubSeq(parsed.Command.path, 1, i - 1))

StepTaken(i) ==
    IF i <= Len(parsed.Command.path) THEN parsed.Command.path[i] ELSE 0

\* The positions of argv the walk looks at: every consumed token and the
\* first one left over.
StepsLooked ==
    1..(IF Len(argv) > Len(parsed.Command.path)
        THEN Len(parsed.Command.path) + 1 ELSE Len(parsed.Command.path))

\* C22 as worded: whenever the next token is the name of a child of the
\* current node, resolution descends into the first child with that name,
\* whatever aliases the siblings declared earlier list.
C22_ExactNameWins ==
    (Resolved /\ ~parsed.HelpAsked) =>
        \A i \in StepsLooked :
            NamedChildren(StepNode(i), argv[i]) # {} =>
                StepTaken(i) = Min(NamedChildren(StepNode(i), argv[i]))

\* C22: whenever the next token is the name of a child of the current node,
\* resolution descends into the first child with that name or into a
\* sibling declared before it; it is the first child with that name when no
\* earlier sibling has an alias equal to the token or a name or alias
\* starting with '*', and it is an earlier sibling, the first one listing
\* the token or one before it, when an earlier sibling lists the token among
\* its aliases.
C22_NameAgainstEarlierAliases ==
    (Resolved /\ ~parsed.HelpAsked) =>
        \A i \in StepsLooked :
            LET node == StepNode(i)
                named == NamedChildren(node, argv[i])
                n == Min(named)
                listing == {j \in 1..(n - 1) : ListsAlias(node.Commands[j], argv[i])}
            IN  named # {} =>
                    /\ StepTaken(i) \in 1..n
                    /\ (\A j \in 1..(n - 1) :
                            /\ ~ListsAlias(node.Commands[j], argv[i])
                            /\ ~HasStarAlias(node.Commands[j])) =>
                                StepTaken(i) = n
                    /\ listing # {} => StepTaken(i) \in 1..Min(listing)

\* The token "down" taken by the earlier sibling "up" through its alias,
\* then "b" taken by the earlier sibling "a" of the child named "b".
C22_Witness ==
    /\ pc = "parsed"
    /\ argv = <<"down", "b", "last">>
    /\ parsed.Command.path = <<1, 1>>
    /\ NodeAt(root, <<2>>).Name = "down"
    /\ NodeAt(root, <<1, 2>>).Name = "b"

\* The path of the parent of the node at the non-empty path p.
ParentPath(p) == SubSeq(p, 1, Len(p) - 1)

\* The node at p has a line in the output.
IsRendered(p) == \E j \in 1..Len(output) : output[j].node = p

\* The node at the non-empty path p is the last child of its parent that has
\* a line in the output.
LastRendered(p) ==
    \A q \in PathsOf(root) :
        (IsRendered(q) /\ Len(q) = Len(p) /\ ParentPath(q) = ParentPath(p)) =>
            q[Len(q)] <= p[Len(p)]

\* The indentation of the children of the node at p: the root's children
\* are indented with blanks, those of a last rendered child with a blank
\* continuation and those of an earlier child with a vertical one.
RECURSIVE Continuation(_)
Continuation(p) ==
    IF p = <<>> THEN "  "
    ELSE Continuation(ParentPath(p)) \o (IF LastRendered(p) THEN "  " ELSE "| ")

\* What a line says after its connector.
LineLabel(c) ==
    IF options.ShowDetails THEN formatDetails(c, options) ELSE c.Name

\* C23: in every output of PrintTree, the last child of a node that is
\* rendered is drawn with the closing connector and its descendants are
\* indented with a blank continuation, every earlier rendered child is drawn
\* with the branching connector and a vertical continuation, also when
\* trailing children are private and hidden.
C23_ConnectorsFollowRendered ==
    pc = "printed" =>
        \A i \in 1..Len(output) :
            LET p == output[i].node
            IN  p # <<>> =>
                    output[i].text =
                        Continuation(ParentPath(p))
                        \o (IF LastRendered(p) THEN "L-" ELSE "|-")
                        \o " " \o LineLabel(NodeAt(root, p))

\* No two children of one node of the tree have the same name.
SiblingNamesDistinct(tree) ==
    \A p \in PathsOf(tree) :
        \A i, j \in 1..Len(NodeAt(tree, p).Commands) :
            i # j => NodeAt(tree, p).Commands[i].Name # NodeAt(tree, p).Commands[j].Name

\* No declared command of the configuration has a filename key.
NoFilenameKeys(m, tree) ==
    \A p \in PathsOf(tree) : p # <<>> => "filename" \notin DOMAIN ConfigAt(m, p)

\* C24: in every tree built from a configuration with sibling-unique names
\* and no explicit filename keys, any two distinct nodes, the root included,
\* have different filenames, with and without a commands directory.
C24_FilenamesDistinct ==
    (root # NilCommand /\ SiblingNamesDistinct(root) /\ NoFilenameKeys(cfg, root)) =>
        \A p, q \in PathsOf(root) :
            p # q => NodeAt(root, p).Filename # NodeAt(root, q).Filename

\* The results LoadComposedConfig can return for the files and arguments of
\* the run.
ComposeResults ==
    LoadComposedConfig(options.path, options.keyword, options.workdir, fs0)

\* C25: for fixed file contents the mapping LoadComposedConfig returns does
\* not depend on the order in which the keys of a mapping are visited: every
\* run on the same files returns the mapping this run returned, so that a
\* key set both next to the import keyword and in the imported mapping has
\* one value.
C25_ComposeDeterministic ==
    pc = "composed" =>
        \A other \in ComposeResults : other.err = "" /\ other.v = output.v

====
